---- MODULE Spec2Model ----
(***************************************************************************)
(* Model of the Telegram automation layer:                                 *)
(*   - sheets/error_notifier.py: the in-memory error notification tracker  *)
(*     (track_error, resend_notifications, check_resolved_errors, the      *)
(*     sweep worker and the track_sheets_errors decorator);                *)
(*   - getAccountData_editAccount.py: the account edit orchestrator        *)
(*     (CSRF manager, get_account_data, edit_account, smart_edit_account   *)
(*     and the bot handlers).                                              *)
(* Everything runs on one cooperative event loop: an action is the code    *)
(* a coroutine executes between two suspension points.                     *)
(***************************************************************************)
EXTENDS Integers, Sequences, FiniteSets, TLC

\* ------------------------------------------------------------------------
\* Bounds of the model
\* ------------------------------------------------------------------------
\* Seconds the clock advances in one Tick (granularity of time.time()).
TickSeconds == 20
\* The clock stops advancing once it has reached this many seconds.
MaxTime == 80
\* The same, where decorated functions are called.
WrapMaxTime == 20
\* The longest input text, in pieces.
MaxPieces == 3
\* The last time the clock shows where the eventual resolution is checked.
LiveMaxTime == 40

\* Tasks that call track_error / a monitored operation.
Procs == {"p1", "p2"}

\* ------------------------------------------------------------------------
\* Values
\* ------------------------------------------------------------------------
\* An optional value is a sequence of length at most one.
Some(v) == <<v>>
Missing == <<>>             \* a key that is absent from a dict
NoConfig == <<>>            \* _config is None (before start_error_notification_worker)
NoNote == <<>>              \* no notification
NoDuration == <<>>          \* duration=None

\* Program constants of error_notifier.py
DefaultResendInterval == 40
DefaultMaxFastRetries == 3
DefaultSlowResendInterval == 120
DefaultAutoResolveTimeout == 60
check_interval == 10
ErrorSleep == 30

\* The "sheets_error_notifications" sections the worker may be started with.
\* A missing key takes the default of its getter.
Section(en, gid, ri, mf, si, to) ==
    [enabled |-> en, group_id |-> gid, resend_interval |-> ri,
     max_fast_retries |-> mf, slow_resend_interval |-> si,
     auto_resolve_timeout |-> to]

Configs ==
    { \* every interval at its default
      Section(Some(TRUE), Some(7), Missing, Missing, Missing, Missing),
      \* a short fast phase
      Section(Some(TRUE), Some(7), Some(20), Some(2), Some(40), Missing),
      \* an auto-resolve timeout below the fast interval
      Section(Some(TRUE), Some(7), Some(40), Missing, Missing, Some(20)),
      \* no target group
      Section(Some(TRUE), Missing, Missing, Missing, Missing, Missing),
      \* disabled
      Section(Some(FALSE), Some(7), Missing, Missing, Missing, Missing),
      \* no enabled flag
      Section(Missing, Some(7), Missing, Missing, Missing, Missing) }

\* Error keys: one monitored worker/operation, two error types.
TrackWorker == "google_api"
TrackOperation == "append_emails"
TrackTypes == {"Rate Limit", "Operation Failed"}
TrackDetails == {"timed out"}

VARIABLES
    config,         \* _config: NoConfig or a section
    telegram_bot,   \* _telegram_bot is set
    now,            \* the clock, time.time()
    active_errors,  \* _active_errors: the dict, in insertion order
    wpc,            \* error_notification_worker: position
    wnow,           \* the sweep's local `now`
    wsnap,          \* the rest of list(_active_errors.items()) being iterated
    wresolved,      \* check_resolved_errors: resolved_keys
    wsleep,         \* seconds left of the worker's asyncio.sleep
    tpc,            \* per task: position inside track_error
    raised,         \* tracker functions that let an exception escape
    ev,             \* the notification handed to send_message in this step
    sendres,        \* the send_message that ended in this step: <<caller, outcome>>
    lastNote,       \* per key: the last notification handed to send_message
    firstAt         \* per key: when its last attempt=1 notification was sent

nvars == <<config, telegram_bot, now, active_errors, wpc, wnow, wsnap,
           wresolved, wsleep, tpc, raised, ev, sendres, lastNote, firstAt>>

\* track_sheets_errors: the calls of a decorated function
VARIABLES
    wfun,           \* per task: what the decorated function did in its last call
    wres,           \* per task: what the wrapper does for its caller in that call
    targs           \* per task: the track_error call handed to asyncio.create_task

wrapvars == <<wfun, wres, targs>>

\* getAccountData_editAccount.py
VARIABLES
    token,          \* csrf_manager.token: <<>> for None
    remote,         \* the account record on the website
    epc,            \* per task: position inside smart_edit_account
    eparsed,        \* per task: parsed, the result of parse_inputs
    efinal,         \* per task: final_data, once merged
    eret,           \* per task: the pair smart_edit_account returned
    eposts,         \* per task: POSTs made by this call, per phase
    elast,          \* per task: the status of the last response it got
    efields,        \* per task: the data fields its fetch response carried
    laststore,      \* the last editAccount the site stored: its input, and the
                    \* record it replaced
    user_editing_state, \* the entry of the user: <<>> or <<account_id>>
    hpc,            \* per task: the handler it runs and its position in it
    hinput,         \* per task: the fields of the text message, parsed
    hraised         \* the tasks whose handler ended in a KeyError

\* The bot handlers' state.
hvars == <<user_editing_state, hpc, hinput, hraised>>

evars == <<token, remote, epc, eparsed, efinal, eret, eposts, elast, efields,
           laststore, hvars>>

\* The input analysis functions of getAccountData_editAccount.py, called on
\* their own
VARIABLES
    pargs,          \* the texts the function is called with
    pcall,          \* the function that has been called, "none" before
    converted,      \* what convert_arabic_numbers returned
    detected,       \* what detect_field_type returned
    cleaned,        \* what clean_backup_codes returned
    parsed_data     \* what parse_inputs returned

pvars == <<pargs, pcall, converted, detected, cleaned, parsed_data>>

vars == <<nvars, wrapvars, evars, pvars>>

\* ------------------------------------------------------------------------
\* Configuration helpers
\* ------------------------------------------------------------------------
\* dict.get(key, default)
DictGet(d, key, default) == IF d[key] = Missing THEN default ELSE d[key][1]

is_enabled ==
    IF config = NoConfig THEN FALSE ELSE DictGet(config[1], "enabled", FALSE)

get_resend_interval ==
    IF config = NoConfig THEN DefaultResendInterval
    ELSE DictGet(config[1], "resend_interval", DefaultResendInterval)

get_max_fast_retries ==
    IF config = NoConfig THEN DefaultMaxFastRetries
    ELSE DictGet(config[1], "max_fast_retries", DefaultMaxFastRetries)

get_slow_resend_interval ==
    IF config = NoConfig THEN DefaultSlowResendInterval
    ELSE DictGet(config[1], "slow_resend_interval", DefaultSlowResendInterval)

get_auto_resolve_timeout ==
    IF config = NoConfig THEN DefaultAutoResolveTimeout
    ELSE DictGet(config[1], "auto_resolve_timeout", DefaultAutoResolveTimeout)

get_target_group_id ==
    IF config = NoConfig THEN Missing ELSE config[1]["group_id"]

\* ------------------------------------------------------------------------
\* _active_errors
\* ------------------------------------------------------------------------
generate_error_key(worker, operation, error_type) ==
    <<worker, operation, error_type>>

Keys == { generate_error_key(TrackWorker, TrackOperation, t) : t \in TrackTypes }

\* The error types the decorator derives from results and exceptions.
ResultTypes == {"Operation Failed", "Rate Limit", "Quota Exceeded",
                "Authentication Error"}
ExceptionTypes == {"ValueError", "AttributeError", "RuntimeError"}
AllKeys ==
    { generate_error_key(TrackWorker, TrackOperation, t) :
         t \in TrackTypes \cup ResultTypes \cup ExceptionTypes }

\* error_key in _active_errors
HasKey(ae, k) == \E i \in 1..Len(ae) : ae[i].key = k
IndexOf(ae, k) == CHOOSE i \in 1..Len(ae) : ae[i].key = k
Entry(ae, k) == ae[IndexOf(ae, k)]
\* list(_active_errors): the keys in insertion order
KeyList(ae) == [i \in 1..Len(ae) |-> ae[i].key]

RECURSIVE DelKey(_, _)
DelKey(ae, k) ==
    IF ae = <<>> THEN <<>>
    ELSE IF Head(ae).key = k THEN Tail(ae)
    ELSE <<Head(ae)>> \o DelKey(Tail(ae), k)

\* ------------------------------------------------------------------------
\* send_error_notification
\* ------------------------------------------------------------------------
\* The early returns: the call reaches send_message only with a bot, the
\* enabled flag and a target group.
ReachesSend ==
    /\ telegram_bot
    /\ is_enabled
    /\ get_target_group_id # Missing

SendOutcomes == {"ok", "failed"}

\* send_error_notification without its except clause.
send_error_notification_unguarded(outcome) ==
    IF outcome = "failed" THEN "raised" ELSE "returned"

\* What the caller sees when send_message ends: the except clause logs a
\* failure and the coroutine returns normally.
send_error_notification(outcome) == "returned"

Note(k, kind, attempt, duration) ==
    Some([key |-> k, kind |-> kind, attempt |-> attempt, duration |-> duration])

\* Bookkeeping of a notification handed to send_message at the current time.
Logged(note) ==
    [lastNote EXCEPT ![note[1].key] =
        [kind |-> note[1].kind, attempt |-> note[1].attempt, at |-> now]]

\* ------------------------------------------------------------------------
\* track_error
\* ------------------------------------------------------------------------
\* track_error without the membership test: every call starts the key anew.
track_error_always_new(ae, worker, operation, error_type, details) ==
    IF ~is_enabled THEN [ae |-> ae, note |-> NoNote]
    ELSE LET k == generate_error_key(worker, operation, error_type)
             fresh == [key |-> k, first_seen |-> now, last_sent |-> now,
                       last_occurrence |-> now, count |-> 1, worker |-> worker,
                       operation |-> operation, error_type |-> error_type,
                       details |-> details]
         IN [ae |-> IF HasKey(ae, k) THEN [ae EXCEPT ![IndexOf(ae, k)] = fresh]
                    ELSE Append(ae, fresh),
             note |-> Note(k, "error", 1, NoDuration)]

\* track_error that leaves an existing entry as it is.
track_error_no_refresh(ae, worker, operation, error_type, details) ==
    IF ~is_enabled THEN [ae |-> ae, note |-> NoNote]
    ELSE LET k == generate_error_key(worker, operation, error_type) IN
         IF ~HasKey(ae, k)
         THEN [ae |-> Append(ae, [key |-> k, first_seen |-> now,
                                  last_sent |-> now, last_occurrence |-> now,
                                  count |-> 1, worker |-> worker,
                                  operation |-> operation,
                                  error_type |-> error_type,
                                  details |-> details]),
               note |-> Note(k, "error", 1, NoDuration)]
         ELSE [ae |-> ae, note |-> NoNote]

\* The dict after the call, and the notification the call passes to
\* send_error_notification (NoNote when it makes no such call).
track_error(ae, worker, operation, error_type, details) ==
    IF ~is_enabled THEN [ae |-> ae, note |-> NoNote]
    ELSE LET k == generate_error_key(worker, operation, error_type) IN
         IF ~HasKey(ae, k)
         THEN [ae |-> Append(ae, [key |-> k,
                                  first_seen |-> now,
                                  last_sent |-> now,
                                  last_occurrence |-> now,
                                  count |-> 1,
                                  worker |-> worker,
                                  operation |-> operation,
                                  error_type |-> error_type,
                                  details |-> details]),
               note |-> Note(k, "error", 1, NoDuration)]
         ELSE [ae |-> [ae EXCEPT ![IndexOf(ae, k)].last_occurrence = now,
                                 ![IndexOf(ae, k)].details = details],
               note |-> NoNote]

\* track_error called by task p, run up to its suspension in send_message (or
\* to its end when it does not send).
Tracks(p, error_type, details) ==
    /\ LET r == track_error(active_errors, TrackWorker, TrackOperation,
                            error_type, details)
           sends == r.note # NoNote /\ ReachesSend
       IN /\ active_errors' = r.ae
          /\ tpc' = [tpc EXCEPT ![p] = IF sends THEN "send" ELSE "idle"]
          /\ ev' = IF sends THEN r.note ELSE NoNote
          /\ lastNote' = IF sends THEN Logged(r.note) ELSE lastNote
          /\ firstAt' = IF sends THEN [firstAt EXCEPT ![r.note[1].key] = now]
                        ELSE firstAt
    /\ sendres' = <<>>
    /\ UNCHANGED <<config, telegram_bot, now, wpc, wnow, wsnap, wresolved,
                   wsleep, raised>>

\* A task calls track_error directly.
TrackError(p, error_type, details) ==
    /\ tpc[p] = "idle"
    /\ Tracks(p, error_type, details)
    /\ UNCHANGED <<wrapvars, evars, pvars>>

\* send_message ends for a suspended track_error; track_error returns.
TrackSent(p, outcome) ==
    /\ tpc[p] = "send"
    /\ tpc' = [tpc EXCEPT ![p] = "idle"]
    /\ raised' = IF send_error_notification(outcome) = "raised"
                 THEN raised \cup {"track_error"} ELSE raised
    /\ ev' = NoNote
    /\ sendres' = <<"track_error", outcome>>
    /\ UNCHANGED <<config, telegram_bot, now, active_errors, wpc, wnow, wsnap,
                   wresolved, wsleep, lastNote, firstAt>>
    /\ UNCHANGED <<wrapvars, evars, pvars>>

\* ------------------------------------------------------------------------
\* resend_notifications / check_resolved_errors / error_notification_worker
\* ------------------------------------------------------------------------
\* The interval test of resend_notifications, one attempt late.
ResendIntervalLate(count) ==
    IF count > get_max_fast_retries THEN get_slow_resend_interval
    ELSE get_resend_interval

ResendIntervalFor(count) ==
    IF count >= get_max_fast_retries THEN get_slow_resend_interval
    ELSE get_resend_interval

\* The for loop of resend_notifications without its count += 1.
RECURSIVE ResendRunSameCount(_, _, _)
ResendRunSameCount(ae, snap, t) ==
    IF snap = <<>> THEN [ae |-> ae, rest |-> <<>>, note |-> NoNote]
    ELSE LET k == Head(snap)
             i == IndexOf(ae, k)
             info == ae[i]
         IN IF t - info.last_sent >= ResendIntervalFor(info.count)
            THEN LET ae2 == [ae EXCEPT ![i].last_sent = t]
                     note == Note(k, "error", ae2[i].count + 1, Some(t - info.first_seen))
                 IN IF ReachesSend
                    THEN [ae |-> ae2, rest |-> Tail(snap), note |-> note]
                    ELSE ResendRunSameCount(ae2, Tail(snap), t)
            ELSE ResendRunSameCount(ae, Tail(snap), t)

\* The for loop of resend_notifications from the entry at the head of snap,
\* run to its next suspension (note # NoNote) or to its end.
RECURSIVE ResendRun(_, _, _)
ResendRun(ae, snap, t) ==
    IF snap = <<>> THEN [ae |-> ae, rest |-> <<>>, note |-> NoNote]
    ELSE LET k == Head(snap)
             i == IndexOf(ae, k)
             info == ae[i]
         IN IF t - info.last_sent >= ResendIntervalFor(info.count)
            THEN LET ae2 == [ae EXCEPT ![i].count = @ + 1, ![i].last_sent = t]
                     note == Note(k, "error", ae2[i].count, Some(t - info.first_seen))
                 IN IF ReachesSend
                    THEN [ae |-> ae2, rest |-> Tail(snap), note |-> note]
                    ELSE ResendRun(ae2, Tail(snap), t)
            ELSE ResendRun(ae, Tail(snap), t)

\* The first for loop of check_resolved_errors, measuring the silence from
\* first_seen instead of last_occurrence.
RECURSIVE CheckRunFromFirstSeen(_, _, _, _)
CheckRunFromFirstSeen(ae, snap, resolved, t) ==
    IF snap = <<>> THEN [resolved |-> resolved, rest |-> <<>>, note |-> NoNote]
    ELSE LET k == Head(snap)
             info == Entry(ae, k)
         IN IF t - info.first_seen >= get_auto_resolve_timeout
            THEN LET note == Note(k, "resolved", info.count, Some(t - info.first_seen))
                 IN IF ReachesSend
                    THEN [resolved |-> Append(resolved, k), rest |-> Tail(snap),
                          note |-> note]
                    ELSE CheckRunFromFirstSeen(ae, Tail(snap), Append(resolved, k), t)
            ELSE CheckRunFromFirstSeen(ae, Tail(snap), resolved, t)

\* The first for loop of check_resolved_errors, likewise.
RECURSIVE CheckRun(_, _, _, _)
CheckRun(ae, snap, resolved, t) ==
    IF snap = <<>> THEN [resolved |-> resolved, rest |-> <<>>, note |-> NoNote]
    ELSE LET k == Head(snap)
             info == Entry(ae, k)
         IN IF t - info.last_occurrence >= get_auto_resolve_timeout
            THEN LET note == Note(k, "resolved", info.count, Some(t - info.first_seen))
                 IN IF ReachesSend
                    THEN [resolved |-> Append(resolved, k), rest |-> Tail(snap),
                          note |-> note]
                    ELSE CheckRun(ae, Tail(snap), Append(resolved, k), t)
            ELSE CheckRun(ae, Tail(snap), resolved, t)

\* check_resolved_errors without its second loop.
DelKeysNone(ae, keys) == ae

\* The second loop of check_resolved_errors: del _active_errors[key].
RECURSIVE DelKeys(_, _)
DelKeys(ae, keys) ==
    IF keys = <<>> THEN ae ELSE DelKeys(DelKey(ae, Head(keys)), Tail(keys))

\* The worker going to asyncio.sleep(seconds).
Asleep(ae, seconds) ==
    [ae |-> ae, pc |-> "sleep", snap |-> <<>>, resolved |-> <<>>, wnow |-> 0,
     sleep |-> seconds, note |-> NoNote]

\* check_resolved_errors from the head of snap on, then the worker's sleep.
CheckPhase(ae, snap, resolved, t) ==
    LET c == CheckRun(ae, snap, resolved, t) IN
    IF c.note # NoNote
    THEN [ae |-> ae, pc |-> "check_send", snap |-> c.rest,
          resolved |-> c.resolved, wnow |-> t, sleep |-> 0, note |-> c.note]
    ELSE Asleep(DelKeys(ae, c.resolved), check_interval)

\* check_resolved_errors without its is_enabled test.
check_resolved_errors_unguarded(ae) == CheckPhase(ae, KeyList(ae), <<>>, now)

\* check_resolved_errors from its first line.
check_resolved_errors(ae) ==
    IF ~is_enabled THEN Asleep(ae, check_interval)
    ELSE CheckPhase(ae, KeyList(ae), <<>>, now)

\* resend_notifications from the head of snap on, then check_resolved_errors.
ResendPhase(ae, snap, t) ==
    LET r == ResendRun(ae, snap, t) IN
    IF r.note # NoNote
    THEN [ae |-> r.ae, pc |-> "resend_send", snap |-> r.rest,
          resolved |-> <<>>, wnow |-> t, sleep |-> 0, note |-> r.note]
    ELSE check_resolved_errors(r.ae)

\* resend_notifications from its first line.
resend_notifications(ae) ==
    IF ~is_enabled THEN check_resolved_errors(ae)
    ELSE ResendPhase(ae, KeyList(ae), now)

\* The worker's state after running to its next suspension.
WorkerGoes(m) ==
    /\ active_errors' = m.ae
    /\ wpc' = m.pc
    /\ wsnap' = m.snap
    /\ wresolved' = m.resolved
    /\ wnow' = m.wnow
    /\ wsleep' = m.sleep
    /\ ev' = m.note
    /\ lastNote' = IF m.note # NoNote THEN Logged(m.note) ELSE lastNote
    /\ UNCHANGED <<config, telegram_bot, now, tpc, firstAt>>
    /\ UNCHANGED <<wrapvars, evars, pvars>>

\* asyncio.sleep returns: one iteration of the while loop begins.
WorkerWake ==
    /\ wpc = "sleep"
    /\ wsleep = 0
    /\ sendres' = <<>>
    /\ WorkerGoes(resend_notifications(active_errors))
    /\ UNCHANGED raised

\* send_message ends inside resend_notifications.
WorkerResendSent(outcome) ==
    /\ wpc = "resend_send"
    /\ sendres' = <<"resend_notifications", outcome>>
    /\ IF send_error_notification(outcome) = "raised"
       THEN /\ WorkerGoes(Asleep(active_errors, ErrorSleep))
            /\ raised' = raised \cup {"resend_notifications"}
       ELSE /\ WorkerGoes(ResendPhase(active_errors, wsnap, wnow))
            /\ UNCHANGED raised

\* send_message ends inside check_resolved_errors.
WorkerCheckSent(outcome) ==
    /\ wpc = "check_send"
    /\ sendres' = <<"check_resolved_errors", outcome>>
    /\ IF send_error_notification(outcome) = "raised"
       THEN /\ WorkerGoes(Asleep(active_errors, ErrorSleep))
            /\ raised' = raised \cup {"check_resolved_errors"}
       ELSE /\ WorkerGoes(CheckPhase(active_errors, wsnap, wresolved, wnow))
            /\ UNCHANGED raised

\* start_error_notification_worker(config, telegram_bot). The worker starts
\* only with the enabled flag and a target group; its first sweep finds
\* _active_errors empty, since every earlier track_error returned at
\* is_enabled().
StartWorker(c) ==
    /\ config = NoConfig
    /\ config' = Some(c)
    /\ telegram_bot' = TRUE
    /\ IF DictGet(c, "enabled", FALSE) /\ c["group_id"] # Missing
       THEN /\ wpc' = "sleep"
            /\ wsleep' = check_interval
       ELSE UNCHANGED <<wpc, wsleep>>
    /\ ev' = NoNote
    /\ sendres' = <<>>
    /\ UNCHANGED <<now, active_errors, wnow, wsnap, wresolved, tpc, raised,
                   lastNote, firstAt>>
    /\ UNCHANGED <<wrapvars, evars, pvars>>

\* start_error_notification_worker called again, with a section that turns
\* the notifications off: it replaces _config and _telegram_bot and returns
\* at is_enabled(); the worker that is running goes on. (A second call with
\* an enabled section would start a second worker, which is not modelled.)
StartWorkerAgain(c) ==
    /\ config # NoConfig
    /\ ~DictGet(c, "enabled", FALSE)
    /\ config' = Some(c)
    /\ telegram_bot' = TRUE
    /\ ev' = NoNote
    /\ sendres' = <<>>
    /\ UNCHANGED <<now, active_errors, wpc, wnow, wsnap, wresolved, wsleep, tpc,
                   raised, lastNote, firstAt>>
    /\ UNCHANGED <<wrapvars, evars, pvars>>

\* Time passes. The clock counts the seconds since the worker was started.
TimePasses(limit) ==
    /\ config # NoConfig
    /\ now < limit
    /\ now' = now + TickSeconds
    /\ wsleep' = IF wsleep > TickSeconds THEN wsleep - TickSeconds ELSE 0
    /\ ev' = NoNote
    /\ sendres' = <<>>
    /\ UNCHANGED <<config, telegram_bot, active_errors, wpc, wnow, wsnap,
                   wresolved, tpc, raised, lastNote, firstAt>>
    /\ UNCHANGED <<wrapvars, evars, pvars>>

Tick == TimePasses(MaxTime)

\* The tasks that call smart_edit_account, and the account they edit.
Editors == {"e1", "e2", "e3"}
\* The record of the account on the website when the program starts.
RemoteInit ==
    [email |-> "old@x.io", password |-> "pw0", backup |-> "11111111",
     group |-> "5"]
NoPosts == [fetch |-> 0, submit |-> 0]
\* The tasks that run a bot handler for the user's updates; the
\* smart_edit_account call of a handler is the editor of the same name.
Handlers == {"e1", "e2"}

NoLast == [kind |-> "none", attempt |-> 0, at |-> 0]

\* The program's state when it starts.
InitProgram ==
    /\ config = NoConfig
    /\ telegram_bot = FALSE
    /\ now = 0
    /\ active_errors = <<>>
    /\ wpc = "off"
    /\ wnow = 0
    /\ wsnap = <<>>
    /\ wresolved = <<>>
    /\ wsleep = 0
    /\ tpc = [p \in Procs |-> "idle"]
    /\ raised = {}
    /\ ev = NoNote
    /\ sendres = <<>>
    /\ lastNote = [k \in AllKeys |-> NoLast]
    /\ firstAt = [k \in AllKeys |-> -1]
    /\ wfun = [p \in Procs |-> <<>>]
    /\ wres = [p \in Procs |-> <<>>]
    /\ targs = [p \in Procs |-> <<>>]
    /\ token = <<>>
    /\ remote = RemoteInit
    /\ epc = [e \in Editors |-> "idle"]
    /\ eparsed = [e \in Editors |-> <<>>]
    /\ efinal = [e \in Editors |-> <<>>]
    /\ eret = [e \in Editors |-> <<>>]
    /\ eposts = [e \in Editors |-> NoPosts]
    /\ elast = [e \in Editors |-> 0]
    /\ efields = [e \in Editors |-> 0]
    /\ laststore = <<>>
    /\ user_editing_state = <<>>
    /\ hpc = [h \in Handlers |-> "idle"]
    /\ hinput = [h \in Handlers |-> <<>>]
    /\ hraised = {}

NotCalled ==
    /\ pcall = "none"
    /\ converted = <<>>
    /\ detected = <<>>
    /\ cleaned = <<>>
    /\ parsed_data = <<>>

Init == InitProgram /\ pargs = <<>> /\ NotCalled

Next ==
    \/ \E c \in Configs : StartWorker(c)
    \/ \E p \in Procs, t \in TrackTypes, d \in TrackDetails : TrackError(p, t, d)
    \/ \E p \in Procs, o \in SendOutcomes : TrackSent(p, o)
    \/ WorkerWake
    \/ \E o \in SendOutcomes : WorkerResendSent(o)
    \/ \E o \in SendOutcomes : WorkerCheckSent(o)
    \/ Tick

Spec == Init /\ [][Next]_vars

\* The tracker with notifications that are turned off while it runs.
DisabledConfigs ==
    { Section(Some(FALSE), Some(7), Missing, Missing, Missing, Missing),
      Section(Missing, Some(7), Missing, Missing, Missing, Missing) }
EnabledConfigs ==
    { Section(Some(TRUE), Some(7), Missing, Missing, Missing, Missing),
      Section(Some(TRUE), Some(7), Some(20), Missing, Missing, Some(20)) }
DisableProcs == {"p1"}

NextDisable ==
    \/ \E c \in EnabledConfigs \cup DisabledConfigs : StartWorker(c)
    \/ \E c \in DisabledConfigs : StartWorkerAgain(c)
    \/ \E p \in DisableProcs, t \in TrackTypes, d \in TrackDetails :
          TrackError(p, t, d)
    \/ \E p \in DisableProcs, o \in SendOutcomes : TrackSent(p, o)
    \/ WorkerWake
    \/ \E o \in SendOutcomes : WorkerResendSent(o)
    \/ \E o \in SendOutcomes : WorkerCheckSent(o)
    \/ Tick

SpecDisable == Init /\ [][NextDisable]_vars

\* ------------------------------------------------------------------------
\* track_sheets_errors
\* ------------------------------------------------------------------------
\* A str is a sequence of characters; a text nothing looks into is one item.
UpperCase == <<"A","B","C","D","E","F","G","H","I","J","K","L","M",
               "N","O","P","Q","R","S","T","U","V","W","X","Y","Z">>
LowerCase == <<"a","b","c","d","e","f","g","h","i","j","k","l","m",
               "n","o","p","q","r","s","t","u","v","w","x","y","z">>
LowerChar(c) ==
    IF \E i \in 1..26 : UpperCase[i] = c
    THEN LowerCase[CHOOSE i \in 1..26 : UpperCase[i] = c]
    ELSE c
\* str.lower()
Lower(str) == [i \in 1..Len(str) |-> LowerChar(str[i])]
\* sub in str
Contains(sub, str) ==
    \E i \in 0..(Len(str) - Len(sub)) :
        \A j \in 1..Len(sub) : str[i + j] = sub[j]

StrRateLimit == <<"r","a","t","e"," ","l","i","m","i","t">>
StrQuota == <<"q","u","o","t","a">>
StrAuth == <<"a","u","t","h">>

\* The error type of a (False, message) result.
ErrorTypeOf(message) ==
    IF Contains(StrRateLimit, Lower(message)) THEN "Rate Limit"
    ELSE IF Contains(StrQuota, Lower(message)) THEN "Quota Exceeded"
    ELSE IF Contains(StrAuth, Lower(message)) THEN "Authentication Error"
    ELSE "Operation Failed"

\* A Python value, by what the wrapper looks at: its type, its length, the
\* truth of its first item, and its second item (a str or not, and its text).
PyTuple2(truthy, isstr, text) ==
    [py |-> "tuple", len |-> 2, truthy |-> truthy,
     second |-> Some([isstr |-> isstr, text |-> text])]
PyTuple1(truthy) ==
    [py |-> "tuple", len |-> 1, truthy |-> truthy, second |-> <<>>]
PyDict == [py |-> "dict", len |-> 0, truthy |-> FALSE, second |-> <<>>]

\* What a call does: it returns a value or raises an exception.
Returns(v) == [does |-> "return", value |-> Some(v), exc |-> <<>>]
Raises(type, text) ==
    [does |-> "raise", value |-> <<>>, exc |-> Some([type |-> type, text |-> text])]

\* str(e) of the AttributeError of message.lower(), and of the RuntimeError of
\* asyncio.create_task without a running loop.
AttributeErrorText == <<"object has no attribute 'lower'">>
NoLoopText == <<"no running event loop">>

\* What the decorated function may do in one call.
WrapOutcomes ==
    { Returns(PyTuple2(TRUE, TRUE, <<"o","k">>)),
      Returns(PyTuple2(FALSE, TRUE, <<"o","o","p","s">>)),
      Returns(PyTuple2(FALSE, TRUE, <<"b","a","d">>)),
      Returns(PyTuple2(FALSE, FALSE, <<>>)),
      Returns(PyDict),
      Raises("ValueError", <<"boom">>) }

\* Messages of failing results that the substring tests tell apart: both
\* 'rate limit' and 'quota' in capitals, 'quota' and 'auth', 'auth' inside a
\* word, and a text that only resembles 'rate limit'.
MsgRateQuota == <<"R","A","T","E"," ","L","I","M","I","T"," ","Q","u","o","t","a">>
MsgQuotaAuth == <<"Q","u","o","t","a","/","a","u","t","h">>
MsgOAuth == <<"O","A","u","t","h","2">>
MsgRateDash == <<"r","a","t","e","-","l","i","m","i","t">>
ClassifyMessages == {MsgRateQuota, MsgQuotaAuth, MsgOAuth, MsgRateDash}

\* What the decorated function may do where the classification is examined.
ClassifyOutcomes ==
    { Returns(PyTuple2(FALSE, TRUE, m)) : m \in ClassifyMessages }
    \cup { Returns(PyTuple2(TRUE, TRUE, MsgOAuth)),
           Returns(PyTuple2(FALSE, FALSE, <<>>)),
           Returns(PyTuple1(FALSE)),
           Returns(PyDict),
           Raises("ValueError", MsgQuotaAuth) }

\* The body of async_wrapper up to its track_error call: the call it makes
\* (none for <<>>) and what the wrapper does for its caller afterwards.
async_wrapper(o) ==
    IF o.does = "return"
    THEN LET v == o.value[1] IN
         IF v.py = "tuple" /\ v.len >= 2 /\ ~v.truthy
         THEN IF v.second[1].isstr
              THEN [track |-> Some([error_type |-> ErrorTypeOf(v.second[1].text),
                                    details |-> v.second[1].text]),
                    then |-> o]
              ELSE \* message.lower() raises inside the try
                   [track |-> Some([error_type |-> "AttributeError",
                                    details |-> AttributeErrorText]),
                    then |-> Raises("AttributeError", AttributeErrorText)]
         ELSE [track |-> <<>>, then |-> o]
    ELSE [track |-> Some([error_type |-> o.exc[1].type,
                          details |-> o.exc[1].text]),
          then |-> o]

\* The body of sync_wrapper: the same tests, and the track_error call goes to
\* asyncio.create_task, which raises RuntimeError without a running loop (in
\* the try as in the except clause).
sync_wrapper(o, in_loop) ==
    LET a == async_wrapper(o) IN
    IF a.track = <<>> \/ in_loop THEN a
    ELSE [track |-> <<>>, then |-> Raises("RuntimeError", NoLoopText)]

\* The wrappers on every outcome of the decorated function, tabulated.
AsyncPlan == [o \in WrapOutcomes \cup ClassifyOutcomes |-> async_wrapper(o)]
SyncPlan == [o \in WrapOutcomes |-> [l \in BOOLEAN |-> sync_wrapper(o, l)]]

WrapProcs == {"p1"}

\* The sections the worker is started with where decorated functions are
\* called: short intervals, no target group, disabled.
WrapConfigs ==
    { Section(Some(TRUE), Some(7), Some(20), Missing, Missing, Some(20)),
      Section(Some(TRUE), Missing, Missing, Missing, Missing, Missing),
      Section(Some(FALSE), Some(7), Missing, Missing, Missing, Missing) }

\* A task calls a decorated coroutine function; the wrapper runs up to the
\* suspension of its track_error call, or to its end.
CallAsync(p, o) ==
    /\ tpc[p] = "idle"
    /\ LET a == AsyncPlan[o] IN
       /\ wfun' = [wfun EXCEPT ![p] = Some([sync |-> FALSE, out |-> o])]
       /\ wres' = [wres EXCEPT ![p] = Some(a.then)]
       /\ IF a.track = <<>>
          THEN /\ ev' = NoNote
               /\ sendres' = <<>>
               /\ UNCHANGED <<config, telegram_bot, now, active_errors, wpc,
                              wnow, wsnap, wresolved, wsleep, tpc, raised,
                              lastNote, firstAt>>
          ELSE Tracks(p, a.track[1].error_type, a.track[1].details)
    /\ UNCHANGED <<targs, evars, pvars>>

\* A task calls a decorated plain function; the wrapper runs to its end.
CallSync(p, o, in_loop) ==
    /\ tpc[p] = "idle"
    /\ LET a == SyncPlan[o][in_loop] IN
       /\ wfun' = [wfun EXCEPT ![p] = Some([sync |-> TRUE, out |-> o])]
       /\ wres' = [wres EXCEPT ![p] = Some(a.then)]
       /\ targs' = [targs EXCEPT ![p] = a.track]
       /\ tpc' = [tpc EXCEPT ![p] = IF a.track = <<>> THEN "idle" ELSE "scheduled"]
    /\ ev' = NoNote
    /\ sendres' = <<>>
    /\ UNCHANGED <<config, telegram_bot, now, active_errors, wpc, wnow, wsnap,
                   wresolved, wsleep, raised, lastNote, firstAt, evars,
                   pvars>>

\* The event loop runs the task that sync_wrapper created.
TaskRun(p) ==
    /\ tpc[p] = "scheduled"
    /\ Tracks(p, targs[p][1].error_type, targs[p][1].details)
    /\ targs' = [targs EXCEPT ![p] = <<>>]
    /\ UNCHANGED <<wfun, wres, evars, pvars>>

WrapTick == TimePasses(WrapMaxTime)

NextWrap ==
    \/ \E c \in WrapConfigs : StartWorker(c)
    \/ \E p \in WrapProcs, o \in WrapOutcomes : CallAsync(p, o)
    \/ \E p \in WrapProcs, o \in WrapOutcomes, l \in BOOLEAN : CallSync(p, o, l)
    \/ \E p \in WrapProcs : TaskRun(p)
    \/ \E p \in WrapProcs, o \in SendOutcomes : TrackSent(p, o)
    \/ WorkerWake
    \/ \E o \in SendOutcomes : WorkerResendSent(o)
    \/ \E o \in SendOutcomes : WorkerCheckSent(o)
    \/ WrapTick

SpecWrap == Init /\ [][NextWrap]_vars

\* Decorated coroutine functions called while the tracker is enabled, the
\* worker asleep.
ClassifyConfigs == { Section(Some(TRUE), Some(7), Missing, Missing, Missing, Missing) }

NextClassify ==
    \/ \E c \in ClassifyConfigs : StartWorker(c)
    \/ \E p \in WrapProcs, o \in ClassifyOutcomes : CallAsync(p, o)
    \/ \E p \in WrapProcs, o \in SendOutcomes : TrackSent(p, o)

SpecClassify == Init /\ [][NextClassify]_vars

\* ========================================================================
\* Properties of the notification tracker
\* ========================================================================
KeyOfType(t) == generate_error_key(TrackWorker, TrackOperation, t)
Active(k) == HasKey(active_errors, k)
ErrorNote(k, attempt) ==
    /\ ev # NoNote
    /\ ev[1].key = k
    /\ ev[1].kind = "error"
    /\ ev[1].attempt = attempt

\* C1 (as stated): with notifications enabled, the first track_error for a key
\* that is not active creates the key and sends exactly one notification with
\* attempt=1, and any further track_error for the key before the fast resend
\* interval has elapsed since that notification sends no notification, also
\* when track_error calls interleave at the send's suspension point.
C1_SilentWithinFastInterval ==
    [][\A p \in Procs, t \in TrackTypes, d \in TrackDetails :
        TrackError(p, t, d) =>
           /\ (ReachesSend /\ ~Active(KeyOfType(t)))
                => /\ HasKey(active_errors', KeyOfType(t))
                   /\ ev' = Note(KeyOfType(t), "error", 1, NoDuration)
           /\ (firstAt[KeyOfType(t)] >= 0
               /\ now - firstAt[KeyOfType(t)] < get_resend_interval)
                => ev' = NoNote]_nvars

\* C1 (amended): the first track_error for a key that is not active creates
\* the key with count 1 and sends exactly one notification with attempt=1; any
\* further track_error for the key while it is active sends no notification
\* and leaves its count and lastSent alone; and when the auto-resolve timeout
\* is not below the fast interval (as with the defaults), no track_error for
\* the key sends a notification before the fast interval has elapsed.
C1_FirstOnceThenSilentWhileActive ==
    [][\A p \in Procs, t \in TrackTypes, d \in TrackDetails :
        TrackError(p, t, d) =>
           LET k == KeyOfType(t) IN
           /\ (ReachesSend /\ ~Active(k))
                => /\ HasKey(active_errors', k)
                   /\ Entry(active_errors', k).count = 1
                   /\ ev' = Note(k, "error", 1, NoDuration)
           /\ Active(k)
                => /\ ev' = NoNote
                   /\ HasKey(active_errors', k)
                   /\ Entry(active_errors', k).count = Entry(active_errors, k).count
                   /\ Entry(active_errors', k).last_sent = Entry(active_errors, k).last_sent
           /\ (/\ get_auto_resolve_timeout >= get_resend_interval
               /\ firstAt[k] >= 0
               /\ now - firstAt[k] < get_resend_interval)
                => ev' = NoNote]_nvars

\* C1 witness: a track_error for a key ran while another track_error for the
\* same key was still suspended in its send, and only attempt 1 was sent.
C1_Witness ==
    \E k \in Keys :
        /\ \A p \in Procs : tpc[p] = "send"
        /\ Active(k)
        /\ Entry(active_errors, k).last_occurrence > Entry(active_errors, k).first_seen
        /\ lastNote[k] = [kind |-> "error", attempt |-> 1,
                          at |-> Entry(active_errors, k).first_seen]

ResolvedNote(k) ==
    /\ ev # NoNote
    /\ ev[1].key = k
    /\ ev[1].kind = "resolved"

\* A step in which the worker finishes check_resolved_errors, and the `now`
\* that check_resolved_errors read at its start.
CheckEnds ==
    /\ \/ WorkerWake
       \/ \E o \in SendOutcomes : WorkerResendSent(o)
       \/ \E o \in SendOutcomes : WorkerCheckSent(o)
    /\ wpc' = "sleep"
CheckNow == IF wpc = "check_send" THEN wnow ELSE now

\* C2: a sweep that finds now - lastOccurrence >= autoResolveTimeout for an
\* active key sends one resolved notification for it, carrying the count and
\* the time elapsed since firstSeen, while the key is still in the mapping,
\* and deletes the key afterwards; a key is deleted only after its resolved
\* notification was handed to the sender, and no key that was due is left
\* when the sweep ends.
C2_ResolvedOnceThenDeleted ==
    [][/\ \A k \in Keys :
            /\ (Active(k) /\ ~HasKey(active_errors', k))
                 => /\ lastNote[k].kind = "resolved"
                    /\ wpc = "check_send"
                    /\ \E i \in 1..Len(wresolved) : wresolved[i] = k
            /\ ResolvedNote(k)'
                 => /\ Active(k)
                    /\ HasKey(active_errors', k)
                    /\ lastNote[k].kind = "error"
                    /\ wnow' - Entry(active_errors, k).last_occurrence
                          >= get_auto_resolve_timeout
                    /\ ev'[1].duration = Some(wnow' - Entry(active_errors, k).first_seen)
                    /\ ev'[1].attempt = Entry(active_errors, k).count
       /\ CheckEnds
            => \A k \in Keys :
                  HasKey(active_errors', k)
                    => CheckNow - Entry(active_errors', k).last_occurrence
                          < get_auto_resolve_timeout]_nvars

\* C2 witness: a key that was resent and then resolved has been deleted.
C2_Witness ==
    \E k \in Keys :
        /\ ~Active(k)
        /\ wpc = "sleep"
        /\ lastNote[k].kind = "resolved"
        /\ lastNote[k].attempt >= 2

\* The interval the claim names: fast for the first N attempts, slow after.
C3_Interval(count) ==
    IF count < get_max_fast_retries THEN get_resend_interval
    ELSE get_slow_resend_interval

ResendNote(k) ==
    /\ ev # NoNote
    /\ ev[1].key = k
    /\ ev[1].kind = "error"
    /\ ev[1].attempt >= 2

\* A step in which the worker finishes the loop of resend_notifications, and
\* the `now` that resend_notifications read at its start.
ResendEnds ==
    /\ \/ WorkerWake
       \/ \E o \in SendOutcomes : WorkerResendSent(o)
    /\ wpc' \in {"check_send", "sleep"}
ResendNow == IF wpc = "resend_send" THEN wnow ELSE now

\* C3 (as stated): a resend happens exactly when now - lastSent >= interval,
\* increments the count and sets lastSent, so that two consecutive error
\* notifications for a key are never closer together than that interval.
C3_SendsSpacedByInterval ==
    [][\A k \in Keys :
          ResendNote(k)'
            => now' - lastNote[k].at >= C3_Interval(Entry(active_errors, k).count)]_nvars

\* C3 (amended): the sweep resends for an active key exactly when the time
\* the sweep read at its start minus lastSent is at least the interval (fast
\* while count < N, slow from count N on); a resend increments the count by
\* one, carries the new count as attempt and sets lastSent to the sweep's
\* time, so the lastSent stamps of consecutive error notifications differ by
\* at least that interval (the sends themselves may be closer together).
C3_ResendWhenDue ==
    [][/\ \A k \in Keys :
            /\ ResendNote(k)'
                 => /\ Active(k)
                    /\ wnow' - Entry(active_errors, k).last_sent
                          >= C3_Interval(Entry(active_errors, k).count)
                    /\ Entry(active_errors', k).count
                          = Entry(active_errors, k).count + 1
                    /\ ev'[1].attempt = Entry(active_errors', k).count
                    /\ Entry(active_errors', k).last_sent = wnow'
                    /\ Entry(active_errors', k).last_sent
                          - Entry(active_errors, k).last_sent
                          >= C3_Interval(Entry(active_errors, k).count)
            /\ (/\ Active(k)
                /\ HasKey(active_errors', k)
                /\ \/ Entry(active_errors', k).count # Entry(active_errors, k).count
                   \/ Entry(active_errors', k).last_sent # Entry(active_errors, k).last_sent)
                 => ResendNote(k)'
       /\ ResendEnds
            => \A k \in Keys :
                  HasKey(active_errors', k)
                    => ResendNow - Entry(active_errors', k).last_sent
                          < C3_Interval(Entry(active_errors', k).count)]_nvars

\* C3 witness: a key has been resent at the fast and then at the slow interval.
C3_Witness ==
    \E k \in Keys :
        /\ Active(k)
        /\ lastNote[k].kind = "error"
        /\ lastNote[k].attempt > get_max_fast_retries
        /\ Entry(active_errors, k).count = lastNote[k].attempt

\* C4: the notifications of a key come in the order attempt=1, resends with
\* attempt numbers rising by one, one resolved notification; the resolved
\* notification ends the lifecycle, so a failure of the key reported after it
\* starts a new lifecycle with a notification with attempt=1.
C4_Lifecycle ==
    [][\A k \in Keys :
          /\ (ev' # NoNote /\ ev'[1].key = k)
               => \/ /\ ev'[1].kind = "error"
                     /\ ev'[1].attempt = 1
                     /\ lastNote[k].kind \in {"none", "resolved"}
                  \/ /\ ev'[1].kind = "error"
                     /\ lastNote[k].kind = "error"
                     /\ ev'[1].attempt = lastNote[k].attempt + 1
                  \/ /\ ev'[1].kind = "resolved"
                     /\ lastNote[k].kind = "error"
          /\ \A p \in Procs, d \in TrackDetails :
                (TrackError(p, k[3], d) /\ lastNote[k].kind = "resolved")
                   => ErrorNote(k, 1)']_nvars

\* C4, the order alone: attempt=1, resends rising by one, one resolved
\* notification, and attempt=1 again only after a resolved notification.
C4_Order ==
    [][\A k \in Keys :
          (ev' # NoNote /\ ev'[1].key = k)
               => \/ /\ ev'[1].kind = "error"
                     /\ ev'[1].attempt = 1
                     /\ lastNote[k].kind \in {"none", "resolved"}
                  \/ /\ ev'[1].kind = "error"
                     /\ lastNote[k].kind = "error"
                     /\ ev'[1].attempt = lastNote[k].attempt + 1
                  \/ /\ ev'[1].kind = "resolved"
                     /\ lastNote[k].kind = "error"]_nvars

\* C7: no tracker function lets an exception escape, whether a send succeeds
\* or fails; when a send ends, track_error leaves the created key in place,
\* resend_notifications keeps the advanced count and lastSent and goes on
\* with the sweep, and check_resolved_errors deletes every key it resolved
\* and lets the worker take its ordinary sleep.
C7_NeverRaises ==
    [][/\ raised' = {}
       /\ \A p \in Procs, o \in SendOutcomes :
             TrackSent(p, o) => active_errors' = active_errors
       /\ \A o \in SendOutcomes :
             WorkerResendSent(o)
               => /\ wpc' \in {"resend_send", "check_send", "sleep"}
                  /\ wpc' = "sleep" => wsleep' = check_interval
                  /\ \A k \in Keys :
                        (Active(k) /\ HasKey(active_errors', k))
                          => /\ Entry(active_errors', k).count
                                  >= Entry(active_errors, k).count
                             /\ Entry(active_errors', k).last_sent
                                  >= Entry(active_errors, k).last_sent
       /\ \A o \in SendOutcomes :
             WorkerCheckSent(o)
               => /\ wpc' \in {"check_send", "sleep"}
                  /\ wpc' = "sleep"
                       => /\ wsleep' = check_interval
                          /\ \A i \in 1..Len(wresolved) :
                                ~HasKey(active_errors', wresolved[i])]_nvars

\* C7 witness: the send of a resolved notification failed and the key it was
\* for has been deleted all the same.
C7_Witness ==
    /\ sendres = <<"check_resolved_errors", "failed">>
    /\ wpc = "sleep"
    /\ wsleep = check_interval
    /\ raised = {}
    /\ \E k \in Keys : lastNote[k].kind = "resolved" /\ lastNote[k].at = now /\ ~Active(k)

\* ========================================================================
\* Properties of the decorator
\* ========================================================================
\* The decorated function reported success.
Succeeded(o) ==
    /\ o.does = "return"
    /\ o.value[1].py = "tuple"
    /\ o.value[1].truthy
TrackedKey(a) ==
    generate_error_key(TrackWorker, TrackOperation, a.track[1].error_type)

\* An entry is refreshed by an occurrence with the given details: only its
\* lastOccurrence and details change, and nothing is sent.
Refreshed(k, details) ==
    /\ HasKey(active_errors', k)
    /\ Entry(active_errors', k) =
          [Entry(active_errors, k) EXCEPT !.last_occurrence = now,
                                          !.details = details]
    /\ ev' = NoNote

\* C5 (as stated): every observed occurrence of the monitored operation for
\* an active key, a success as well as a repeated failure, sets the key's
\* lastOccurrence (and a failure its details) and sends nothing.
C5_EveryOccurrenceRefreshes ==
    [][\A p \in WrapProcs, o \in WrapOutcomes :
          CallAsync(p, o)
            => \A k \in AllKeys :
                  Active(k)
                    => /\ (AsyncPlan[o].track # <<>> /\ TrackedKey(AsyncPlan[o]) = k)
                            => Refreshed(k, AsyncPlan[o].track[1].details)
                       /\ Succeeded(o)
                            => /\ HasKey(active_errors', k)
                               /\ Entry(active_errors', k).last_occurrence = now
                               /\ ev' = NoNote]_vars

\* C5 (amended): every observed failure of the monitored operation for an
\* active key sets that key's lastOccurrence and details, changes nothing
\* else and sends no notification (for a plain function when the task that
\* sync_wrapper created runs); a call that succeeds, or returns something
\* that is no failure, leaves the whole mapping unchanged and sends nothing.
C5_FailureRefreshesSuccessDoesNot ==
    [][/\ \A p \in WrapProcs, o \in WrapOutcomes :
             CallAsync(p, o)
               => IF AsyncPlan[o].track = <<>>
                  THEN active_errors' = active_errors /\ ev' = NoNote
                  ELSE Active(TrackedKey(AsyncPlan[o]))
                         => Refreshed(TrackedKey(AsyncPlan[o]),
                                      AsyncPlan[o].track[1].details)
       /\ \A p \in WrapProcs, o \in WrapOutcomes, l \in BOOLEAN :
             CallSync(p, o, l) => active_errors' = active_errors /\ ev' = NoNote
       /\ \A p \in WrapProcs :
             (TaskRun(p)
              /\ Active(generate_error_key(TrackWorker, TrackOperation,
                                           targs[p][1].error_type)))
               => Refreshed(generate_error_key(TrackWorker, TrackOperation,
                                               targs[p][1].error_type),
                            targs[p][1].details)]_vars

\* C5 witness: a repeated failure with other details has refreshed an active
\* key some time after its first notification, and nothing more was sent.
C5_Witness ==
    \E k \in AllKeys :
        /\ Active(k)
        /\ Entry(active_errors, k).last_occurrence > Entry(active_errors, k).first_seen
        /\ Entry(active_errors, k).details = <<"b","a","d">>
        /\ lastNote[k] = [kind |-> "error", attempt |-> 1,
                          at |-> Entry(active_errors, k).first_seen]
        /\ wfun["p1"] = Some([sync |-> FALSE,
                              out |-> Returns(PyTuple2(FALSE, TRUE, <<"b","a","d">>))])

\* The wrapper has returned to (or raised into) its caller.
WrapperDone(p) ==
    /\ wfun[p] # <<>>
    /\ wfun[p][1].sync \/ tpc[p] = "idle"

Parsed(email, password, backup, has_trigger) ==
    [email |-> email, password |-> password, backup |-> backup,
     has_trigger |-> has_trigger]
\* What the callers pass, parsed: nothing but the trigger, or a new password.
ParsedInputs ==
    { Parsed(<<>>, <<>>, <<>>, TRUE),
      Parsed(<<>>, <<"pw1">>, <<>>, FALSE) }

\* SimpleCSRFManager._refresh_token against the site: the page carries a
\* token, or the request fails (status, no meta tag, exception).
RefreshOutcomes == { <<"tokA">>, <<"tokB">>, <<>> }
\* self.token after _refresh_token.
refresh_token(tok, outcome) == IF outcome # <<>> THEN outcome ELSE tok

\* The data list of the getAccountData response for a record, cut to n items.
DataOf(rec, n) ==
    SubSeq(<<"580127", rec.email, rec.password, rec.backup, "", "", rec.group>>,
           1, n)
\* With several tasks: a list too short to be accepted, and a full one.
DataLengths == {2, 7}
\* A response: a status and a body, or an exception of the request (status 0).
Statuses == {200, 403, 419, 500}
\* A getAccountData response carries n data fields when its status is 200.
FetchResponsesOf(lengths) ==
    [status : {200}, n : lengths, exc : {FALSE}]
        \cup [status : Statuses \ {200}, n : {0}, exc : {FALSE}]
        \cup {[status |-> 0, n |-> 0, exc |-> TRUE]}
FetchResponses == FetchResponsesOf(DataLengths)
\* An editAccount response has a body of len characters; str(e) of an
\* exception has ExcLen characters.
ExcLen == 30
BodyLen == 12
SubmitResponsesOf(lengths) ==
    [status : Statuses, len : lengths, exc : {FALSE}]
        \cup {[status |-> 0, len |-> ExcLen, exc |-> TRUE]}
SubmitResponses == SubmitResponsesOf({BodyLen})

\* What a function of the orchestrator does for its caller: it returns value,
\* or an exception escapes it.
Returned(value) == [raised |-> FALSE, value |-> value]
Escaped == [raised |-> TRUE, value |-> <<>>]

\* get_account_data without its try/except.
get_account_data_unguarded(resp, rec) ==
    IF resp.exc THEN Escaped ELSE Returned(<<>>)

\* get_account_data on a response: it returns <<>> (None) or <<the dict>>.
get_account_data(resp, rec) ==
    LET account_data == DataOf(rec, resp.n) IN
    IF resp.exc THEN Returned(<<>>)
    ELSE IF resp.status # 200 THEN Returned(<<>>)
    ELSE IF account_data = <<>> \/ Len(account_data) < 3 THEN Returned(<<>>)
    ELSE Returned(
         << [email |-> IF Len(account_data) > 1 THEN account_data[2] ELSE "",
             password |-> IF Len(account_data) > 2 THEN account_data[3] ELSE "",
             backup |-> IF Len(account_data) > 3 THEN account_data[4] ELSE "",
             group |-> IF Len(account_data) > 6 THEN account_data[7] ELSE "1111"] >>)

\* x or y: None and the empty str are false.
PyOr(x, y) == IF x # <<>> /\ x[1] # "" THEN x[1] ELSE y
\* final_data
Merge(parsed, current_data) ==
    [email |-> PyOr(parsed.email, current_data.email),
     password |-> PyOr(parsed.password, current_data.password),
     backup |-> PyOr(parsed.backup, current_data.backup),
     group |-> current_data.group]

\* The pair smart_edit_account returns, the message by its text and length.
Pair(success, message, len) ==
    [raised |-> FALSE, success |-> success, message |-> message, len |-> len]
\* An exception that escapes smart_edit_account.
EscapedEdit ==
    [raised |-> TRUE, success |-> FALSE, message |-> "exception", len |-> ExcLen]

\* edit_account on a response: the pair it returns.
BodyOf(resp) ==
    IF resp.exc THEN "exception"
    ELSE IF resp.status = 200 THEN "OK" ELSE "error page"
edit_account(resp) ==
    Pair(~resp.exc /\ resp.status = 200, BodyOf(resp), resp.len)
FetchFailedLen == 16
FetchFailed == Pair(FALSE, "fetch failed", FetchFailedLen)

\* edit_payload with the e-mail field left out.
edit_payload_no_email(final_data) ==
    [email |-> "", password |-> final_data.password,
     backup |-> final_data.backup, group |-> final_data.group]

\* The fields of the account in edit_account's payload, which the site stores.
edit_payload(final_data) ==
    [email |-> final_data.email,
     password |-> final_data.password,
     backup |-> IF final_data.backup # "" THEN final_data.backup ELSE "",
     group |-> final_data.group]

\* csrf_manager.get_token() at the head of a request: with a cached token the
\* POST goes out at once, otherwise the task first waits for _refresh_token.
\* The position after get_token is entered, and the POSTs counted so far.
AfterGetToken(tok, phase) == IF tok # <<>> THEN phase ELSE phase \o "_token"
Posted(posts, phase) ==
    IF phase = "fetch" THEN [posts EXCEPT !.fetch = @ + 1]
    ELSE [posts EXCEPT !.submit = @ + 1]

\* A task calls smart_edit_account: parse_inputs, then get_account_data up to
\* its first suspension.
StartEdit(e, parsed) ==
    /\ epc[e] \in {"idle", "done"}
    /\ eparsed' = [eparsed EXCEPT ![e] = <<parsed>>]
    /\ efinal' = [efinal EXCEPT ![e] = <<>>]
    /\ eret' = [eret EXCEPT ![e] = <<>>]
    /\ elast' = [elast EXCEPT ![e] = 0]
    /\ efields' = [efields EXCEPT ![e] = 0]
    /\ epc' = [epc EXCEPT ![e] = AfterGetToken(token, "fetch")]
    /\ eposts' = [eposts EXCEPT ![e] =
                    IF token # <<>> THEN Posted(NoPosts, "fetch") ELSE NoPosts]
    /\ UNCHANGED <<token, remote, laststore>>
    /\ UNCHANGED <<nvars, wrapvars, pvars>>

\* _refresh_token returns to get_token, which returns self.token; the POST of
\* the phase goes out with it.
TokenFetched(e, outcome) ==
    /\ epc[e] \in {"fetch_token", "submit_token"}
    /\ token' = refresh_token(token, outcome)
    /\ LET phase == IF epc[e] = "fetch_token" THEN "fetch" ELSE "submit" IN
        /\ epc' = [epc EXCEPT ![e] = phase]
        /\ eposts' = [eposts EXCEPT ![e] = Posted(@, phase)]
    /\ UNCHANGED <<remote, eparsed, efinal, eret, elast, efields, laststore>>
    /\ UNCHANGED <<nvars, wrapvars, pvars>>

\* The getAccountData response arrives: get_account_data returns, and
\* smart_edit_account returns the failure or merges and enters edit_account.
FetchResponds(e, resp) ==
    /\ epc[e] = "fetch"
    /\ elast' = [elast EXCEPT ![e] = resp.status]
    /\ efields' = [efields EXCEPT ![e] = resp.n]
    /\ LET got == get_account_data(resp, remote)
           current_data == got.value IN
       IF got.raised \/ current_data = <<>>
       THEN /\ eret' = [eret EXCEPT ![e] =
                          IF got.raised THEN <<EscapedEdit>> ELSE <<FetchFailed>>]
            /\ epc' = [epc EXCEPT ![e] = "done"]
            /\ eparsed' = [eparsed EXCEPT ![e] = <<>>]
            /\ UNCHANGED <<efinal, eposts>>
       ELSE /\ efinal' = [efinal EXCEPT ![e] =
                            <<Merge(eparsed[e][1], current_data[1])>>]
            /\ epc' = [epc EXCEPT ![e] = AfterGetToken(token, "submit")]
            /\ eposts' = [eposts EXCEPT ![e] =
                            IF token # <<>> THEN Posted(@, "submit") ELSE @]
            /\ UNCHANGED <<eret, eparsed>>
    /\ UNCHANGED <<token, remote, laststore>>
    /\ UNCHANGED <<nvars, wrapvars, pvars>>

\* The editAccount response arrives: the site has stored the record when it
\* answers 200; edit_account and smart_edit_account return the pair.
SubmitResponds(e, resp) ==
    /\ epc[e] = "submit"
    /\ elast' = [elast EXCEPT ![e] = resp.status]
    /\ eret' = [eret EXCEPT ![e] = <<edit_account(resp)>>]
    /\ remote' = IF edit_account(resp).success THEN edit_payload(efinal[e][1])
                 ELSE remote
    /\ laststore' = IF edit_account(resp).success
                    THEN <<[by |-> eparsed[e][1], was |-> remote]>>
                    ELSE laststore
    /\ epc' = [epc EXCEPT ![e] = "done"]
    /\ eparsed' = [eparsed EXCEPT ![e] = <<>>]
    /\ efinal' = [efinal EXCEPT ![e] = <<>>]
    /\ UNCHANGED <<token, eposts, efields>>
    /\ UNCHANGED <<nvars, wrapvars, pvars>>

NextEdit ==
    \/ \E e \in Editors, parsed \in ParsedInputs :
          StartEdit(e, parsed) /\ UNCHANGED hvars
    \/ \E e \in Editors, o \in RefreshOutcomes :
          TokenFetched(e, o) /\ UNCHANGED hvars
    \/ \E e \in Editors, r \in FetchResponses :
          FetchResponds(e, r) /\ UNCHANGED hvars
    \/ \E e \in Editors, r \in SubmitResponses :
          SubmitResponds(e, r) /\ UNCHANGED hvars

SpecEdit == Init /\ [][NextEdit]_vars

\* ========================================================================
\* Properties of the edit orchestrator
\* ========================================================================
\* The smart_edit_account executions between start and completion.
EditsInProgress == {e \in Editors : epc[e] \notin {"idle", "done"}}
AuthStatuses == {403, 419}
\* The task e gets the response to its POST in this step.
Responded(e) == epc[e] \in {"fetch", "submit"} /\ epc'[e] # epc[e]

\* C8: at every moment at most 2 edit operations (smart_edit_account
\* executions between start and completion) are in progress; a third
\* concurrent caller waits until one of them finishes.
C8_AtMostTwoEdits == Cardinality(EditsInProgress) <= 2

\* C9: when the fetch or the submission gets a 403 or 419 response, the token
\* is refreshed and the request retried once: a call that has ended on a 403
\* or 419 has made 2 attempts in the phase that got it (the fetch phase when
\* nothing was submitted, the submit phase otherwise).
C9_RetriesOnceOnAuthFailure ==
    \A e \in Editors :
        (epc[e] = "done" /\ elast[e] \in AuthStatuses)
            => IF eposts[e].submit = 0 THEN eposts[e].fetch = 2
               ELSE eposts[e].submit = 2

\* C10: the CSRF token is fetched lazily and cached: a task waits for
\* _refresh_token only when no token is cached, a cached token stays until a
\* 403/419 response, and a 403/419 response to a request invalidates the
\* cached token (so that the next get_token refreshes it).
C10_CachedUntilAuthFailure ==
    [][\A e \in Editors :
        /\ (epc'[e] \in {"fetch_token", "submit_token"} /\ epc'[e] # epc[e])
                => token = <<>>
        /\ (Responded(e) /\ elast'[e] \in AuthStatuses) => token' = <<>>
        /\ (Responded(e) /\ elast'[e] \notin AuthStatuses) => token' = token
      ]_vars

\* ------------------------------------------------------------------------
\* One task, with every shape of response and of parsed input
\* ------------------------------------------------------------------------
\* parse_inputs' results: the trigger alone, a password, an email and backup
\* codes, a field of commas only (backup ""), and all three fields.
ParsedInputsAll ==
    ParsedInputs \cup
    { Parsed(<<"new@x.io">>, <<>>, <<"22222222">>, FALSE),
      Parsed(<<>>, <<>>, <<"">>, FALSE),
      Parsed(<<"new@x.io">>, <<"pw1">>, <<"22222222">>, TRUE) }
DataLengthsAll == {0, 2, 3, 4, 6, 7}
BodyLengths == {100, 101}

NextEditOne ==
    \/ \E parsed \in ParsedInputsAll :
          StartEdit("e1", parsed) /\ UNCHANGED hvars
    \/ \E o \in RefreshOutcomes :
          TokenFetched("e1", o) /\ UNCHANGED hvars
    \/ \E r \in FetchResponsesOf(DataLengthsAll) :
          FetchResponds("e1", r) /\ UNCHANGED hvars
    \/ \E r \in SubmitResponsesOf(BodyLengths) :
          SubmitResponds("e1", r) /\ UNCHANGED hvars

SpecEditOne == Init /\ [][NextEditOne]_vars

\* The task e gets the response to its getAccountData POST in this step.
FetchAnswered(e) == epc[e] = "fetch" /\ epc'[e] # "fetch"
\* The task e goes on to submit in this step.
GoesToSubmit(e) == FetchAnswered(e) /\ epc'[e] \in {"submit", "submit_token"}

\* C11: an edit whose fetch response carries fewer than 4 data fields fails
\* with the 'could not fetch current data' result and submits nothing; an edit
\* goes on to submit only when the response carried at least 4 data fields.
C11_NeedsFourFields ==
    [][\A e \in Editors :
        FetchAnswered(e) =>
            /\ efields'[e] < 4 =>
                   /\ epc'[e] = "done"
                   /\ eret'[e] = <<FetchFailed>>
                   /\ eposts'[e].submit = 0
            /\ GoesToSubmit(e) => efields'[e] >= 4
      ]_vars

\* The parsed input provides a value for a field.
Provides(x) == x # <<>> /\ x[1] # ""
\* The value submitted for a field: the parsed one, else the remote one.
Expected(x, remote_value) == IF Provides(x) THEN x[1] ELSE remote_value
OnlyPassword(parsed) ==
    Provides(parsed.password) /\ ~Provides(parsed.email) /\ ~Provides(parsed.backup)

\* C12: in the merged record an edit submits, each of email, password and
\* backup codes is the parsed value when the input provides one and the
\* current remote value otherwise; when only a password is parsed, email,
\* backup codes and group are the remote ones.
C12_MergedRecord ==
    [][\A e \in Editors :
        GoesToSubmit(e) =>
            LET parsed == eparsed[e][1]
                final_data == efinal'[e][1] IN
            /\ final_data.email = Expected(parsed.email, remote.email)
            /\ final_data.password = Expected(parsed.password, remote.password)
            /\ final_data.backup = Expected(parsed.backup, remote.backup)
            /\ OnlyPassword(parsed) =>
                   /\ final_data.email = remote.email
                   /\ final_data.backup = remote.backup
                   /\ final_data.group = remote.group
      ]_vars

\* The site stores the record the task e submitted in this step.
Stored(e) == epc[e] = "submit" /\ epc'[e] = "done" /\ eret'[e][1].success

\* C13: the group an edit submits is the access group of the fetched remote
\* record, whatever the input and the shape of the accepted response; the
\* edit never changes the account's group.
C13_GroupCarriedOver ==
    [][\A e \in Editors :
        /\ GoesToSubmit(e) => efinal'[e][1].group = remote.group
        /\ Stored(e) => remote'.group = remote.group
      ]_vars

\* C14: smart_edit_account always returns a (success, message) pair and no
\* exception escapes it, whatever the fetch, token and submit calls do
\* (non-200 status, exception of the request, malformed response).
C14_AlwaysReturnsPair ==
    \A e \in Editors :
        /\ epc[e] = "done" =>
               /\ eret[e] # <<>>
               /\ ~eret[e][1].raised
               /\ eret[e][1].success \in BOOLEAN
               /\ eret[e][1].success => (elast[e] = 200 /\ eposts[e].submit = 1)
        /\ epc[e] # "done" => eret[e] = <<>>

\* The getAccountData request has raised and the call has returned the
\* 'could not fetch' pair.
C14_Witness ==
    /\ epc["e1"] = "done"
    /\ elast["e1"] = 0
    /\ eposts["e1"] = [fetch |-> 1, submit |-> 0]
    /\ eret["e1"] = <<FetchFailed>>

\* C15: when the submission gets a non-200 response, the call returns
\* (false, message) with the response body cut to at most 100 characters.
C15_FailureBodyTruncated ==
    \A e \in Editors :
        (epc[e] = "done" /\ eposts[e].submit = 1 /\ elast[e] \notin {0, 200})
            => /\ ~eret[e][1].success
               /\ eret[e][1].message = "error page"
               /\ eret[e][1].len <= 100

\* ========================================================================
\* getAccountData_editAccount.py: the analysis of the input fields
\* ========================================================================
\* A str is a sequence of characters. "ar0".."ar9" stand for the Arabic-Indic
\* digits U+0660..U+0669, "fa0".."fa9" for the Extended Arabic-Indic (Persian)
\* digits U+06F0..U+06F9, "nl" for the newline.
ArabicDigits == <<"ar0","ar1","ar2","ar3","ar4","ar5","ar6","ar7","ar8","ar9">>
EnglishDigits == <<"0","1","2","3","4","5","6","7","8","9">>
PersianDigits == {"fa0","fa1","fa2","fa3","fa4","fa5","fa6","fa7","fa8","fa9"}
Range(f) == {f[i] : i \in DOMAIN f}
\* \d of a str pattern: any Unicode decimal digit.
IsDigit(c) ==
    c \in Range(EnglishDigits) \cup Range(ArabicDigits) \cup PersianDigits
\* The whitespace str.strip() removes.
Whitespace == {" ", "nl"}

\* text.replace(old, new) for one character.
Replace(text, old, new) ==
    [i \in 1..Len(text) |-> IF text[i] = old THEN new ELSE text[i]]

\* The loop of convert_arabic_numbers from the i-th item of the dict.
RECURSIVE ConvertFrom(_, _)
ConvertFrom(text, i) ==
    IF i > Len(ArabicDigits) THEN text
    ELSE ConvertFrom(Replace(text, ArabicDigits[i], EnglishDigits[i]), i + 1)

\* convert_arabic_numbers with the last item of its dict missing.
convert_arabic_numbers_short(text) ==
    IF text = <<>> THEN text
    ELSE [i \in 1..Len(text) |->
            IF \E k \in 1..9 : ArabicDigits[k] = text[i]
            THEN EnglishDigits[CHOOSE k \in 1..9 : ArabicDigits[k] = text[i]]
            ELSE text[i]]

convert_arabic_numbers(text) == ConvertFrom(text, 1)

\* value.strip()
Strip(value) ==
    LET inner == {i \in 1..Len(value) : value[i] \notin Whitespace} IN
    IF inner = {} THEN <<>>
    ELSE SubSeq(value, CHOOSE i \in inner : \A j \in inner : i <= j,
                       CHOOSE i \in inner : \A j \in inner : i >= j)

\* c in text
In(c, text) == \E i \in 1..Len(text) : text[i] = c
\* re.findall(r"\d{8,}", text) is not empty.
HasCode(text) ==
    \E i \in 1..(Len(text) - 7) : \A j \in i..(i + 7) : IsDigit(text[j])
\* re.sub(r"\D", "", text)
DigitsOnly(text) == SelectSeq(text, IsDigit)

\* What detect_field_type returns: (None, None) is type "none".
Field(type, value) == [type |-> type, value |-> value]
NoField == Field("none", <<>>)

\* detect_field_type with the comma rule tried before the email rule.
detect_field_type_comma_first(value) ==
    IF value = <<>> \/ Strip(value) = <<>> THEN NoField
    ELSE LET v == Strip(value)
             value_normalized == convert_arabic_numbers(v) IN
         IF In(",", value_normalized) THEN Field("backup", value_normalized)
         ELSE IF In("@", v) /\ In(".", v) THEN Field("email", v)
         ELSE IF HasCode(value_normalized) THEN Field("backup", value_normalized)
         ELSE IF Len(DigitsOnly(value_normalized)) >= 16
              THEN Field("backup", value_normalized)
         ELSE IF Len(v) >= 1 /\ Len(v) <= 4 THEN Field("trigger", v)
         ELSE Field("password", v)

\* detect_field_type with the trigger rule taking up to 3 characters.
detect_field_type_short_trigger(value) ==
    IF value = <<>> \/ Strip(value) = <<>> THEN NoField
    ELSE LET v == Strip(value)
             value_normalized == convert_arabic_numbers(v) IN
         IF In("@", v) /\ In(".", v) THEN Field("email", v)
         ELSE IF In(",", value_normalized) THEN Field("backup", value_normalized)
         ELSE IF HasCode(value_normalized) THEN Field("backup", value_normalized)
         ELSE IF Len(DigitsOnly(value_normalized)) >= 16
              THEN Field("backup", value_normalized)
         ELSE IF Len(v) >= 1 /\ Len(v) <= 3 THEN Field("trigger", v)
         ELSE Field("password", v)

detect_field_type(value) ==
    IF value = <<>> \/ Strip(value) = <<>> THEN NoField
    ELSE LET v == Strip(value)
             value_normalized == convert_arabic_numbers(v) IN
         IF In("@", v) /\ In(".", v) THEN Field("email", v)
         ELSE IF In(",", value_normalized) THEN Field("backup", value_normalized)
         ELSE IF HasCode(value_normalized) THEN Field("backup", value_normalized)
         ELSE IF Len(DigitsOnly(value_normalized)) >= 16
              THEN Field("backup", value_normalized)
         ELSE IF Len(v) >= 1 /\ Len(v) <= 4 THEN Field("trigger", v)
         ELSE Field("password", v)

\* re.sub(r"[,\n]+", " ", text): every run of commas and newlines becomes one
\* space. prev tells that the character before text was in such a run.
RECURSIVE Standardize(_, _)
Standardize(text, prev) ==
    IF text = <<>> THEN <<>>
    ELSE IF Head(text) \in {",", "nl"}
         THEN (IF prev THEN <<>> ELSE <<" ">>) \o Standardize(Tail(text), TRUE)
         ELSE <<Head(text)>> \o Standardize(Tail(text), FALSE)

\* re.findall(r"\d{8,}", text): the maximal runs of 8 digits or more, from
\* left to right. run is the run of digits that ends right before text.
RECURSIVE FindCodes(_, _)
FindCodes(text, run) ==
    LET found == IF Len(run) >= 8 THEN <<run>> ELSE <<>> IN
    IF text = <<>> THEN found
    ELSE IF IsDigit(Head(text)) THEN FindCodes(Tail(text), Append(run, Head(text)))
         ELSE found \o FindCodes(Tail(text), <<>>)

\* code[-8:]
Last8(code) == SubSeq(code, Len(code) - 7, Len(code))
\* list(dict.fromkeys(codes)): the first occurrence of each, in order.
RECURSIVE Unique(_, _)
Unique(codes, seen) ==
    IF codes = <<>> THEN <<>>
    ELSE IF Head(codes) \in seen THEN Unique(Tail(codes), seen)
         ELSE <<Head(codes)>> \o Unique(Tail(codes), seen \cup {Head(codes)})
\* ",".join(codes)
RECURSIVE Join(_)
Join(codes) ==
    IF codes = <<>> THEN <<>>
    ELSE IF Len(codes) = 1 THEN codes[1]
         ELSE codes[1] \o <<",">> \o Join(Tail(codes))

clean_backup_codes(raw_codes) ==
    LET normalized == convert_arabic_numbers(raw_codes)
        standardized == Standardize(normalized, FALSE)
        found_codes == FindCodes(standardized, <<>>)
        cleaned_codes == [i \in 1..Len(found_codes) |-> Last8(found_codes[i])]
        unique_codes == Unique(cleaned_codes, {})
    IN  Join(unique_codes)

\* The body of parse_inputs' loop for one field.
ParseField(data, field) ==
    IF field = <<>> THEN data
    ELSE LET f == detect_field_type(field) IN
         IF f.type = "trigger" THEN [data EXCEPT !.has_trigger = TRUE]
         ELSE IF f.type = "backup"
              THEN [data EXCEPT !.backup = <<clean_backup_codes(f.value)>>]
         ELSE IF f.type = "email" /\ f.value # <<>>
              THEN [data EXCEPT !.email = <<f.value>>]
         ELSE IF f.type = "password" /\ f.value # <<>>
              THEN [data EXCEPT !.password = <<f.value>>]
         ELSE data

parse_inputs(field1, field2, field3) ==
    ParseField(ParseField(ParseField(Parsed(<<>>, <<>>, <<>>, FALSE), field1),
                          field2), field3)

\* ------------------------------------------------------------------------
\* The functions on bounded inputs
\* ------------------------------------------------------------------------
\* The pieces the input texts are made of: runs of 7 and 8 ASCII digits, the
\* ten Arabic-Indic digits, 8 Persian digits, two runs of 7 digits, two codes
\* on two lines, and single characters.
D8 == <<"1","2","3","4","5","6","7","8">>
Pieces ==
    LET D7 == <<"1","2","3","4","5","6","7">>
        R8 == <<"8","7","6","5","4","3","2","1">>
        F8 == <<"fa1","fa2","fa3","fa4","fa5","fa6","fa7","fa8">>
    IN  { D7, D8, ArabicDigits, F8, D7 \o <<"-">> \o D7, R8 \o <<"nl">> \o D8,
          <<",">>, <<"nl">>, <<" ">>, <<"x">>, <<"@">>, <<".">> }

RECURSIVE Concat(_)
Concat(pieces) ==
    IF pieces = <<>> THEN <<>> ELSE Head(pieces) \o Concat(Tail(pieces))
Texts ==
    UNION {{Concat(ps) : ps \in [1..n -> Pieces]} : n \in 0..MaxPieces}

\* The fields parse_inputs is called with: empty, blank, of 1 to 4 characters
\* (letters, an Arabic-Indic digit, with '@' and '.', with a comma, padded),
\* of 5 characters, an email, a password and backup codes.
Fields ==
    { <<>>, <<" ">>, <<"a","b">>, <<"a","b","c","d">>, <<"ar3">>,
      <<"a","@",".","b">>, <<"1",",","2">>, <<" ","a","b"," ">>,
      <<" ","a","b","c","d","e"," ">>, <<"a","b","c","d","e">>,
      <<"e","@","x",".","i","o">>, D8 }

\* A call of one of the functions, on any text or on any three fields.
InitPure ==
    /\ InitProgram
    /\ pargs \in {<<t>> : t \in Texts \cup Fields} \cup [1..3 -> Fields]
    /\ NotCalled

CallConvert ==
    /\ pcall = "none" /\ Len(pargs) = 1
    /\ pcall' = "convert_arabic_numbers"
    /\ converted' = <<convert_arabic_numbers(pargs[1])>>
    /\ UNCHANGED <<pargs, detected, cleaned, parsed_data>>
    /\ UNCHANGED <<nvars, wrapvars, evars>>

CallDetect ==
    /\ pcall = "none" /\ Len(pargs) = 1
    /\ pcall' = "detect_field_type"
    /\ detected' = <<detect_field_type(pargs[1])>>
    /\ UNCHANGED <<pargs, converted, cleaned, parsed_data>>
    /\ UNCHANGED <<nvars, wrapvars, evars>>

CallClean ==
    /\ pcall = "none" /\ Len(pargs) = 1
    /\ pcall' = "clean_backup_codes"
    /\ cleaned' = <<clean_backup_codes(pargs[1])>>
    /\ UNCHANGED <<pargs, converted, detected, parsed_data>>
    /\ UNCHANGED <<nvars, wrapvars, evars>>

CallParse ==
    /\ pcall = "none" /\ Len(pargs) = 3
    /\ pcall' = "parse_inputs"
    /\ parsed_data' = <<parse_inputs(pargs[1], pargs[2], pargs[3])>>
    /\ UNCHANGED <<pargs, converted, detected, cleaned>>
    /\ UNCHANGED <<nvars, wrapvars, evars>>

NextPure == CallConvert \/ CallDetect \/ CallClean \/ CallParse

SpecPure == InitPure /\ [][NextPure]_vars

\* ========================================================================
\* Properties of the input analysis
\* ========================================================================
Called(f) == pcall = f /\ Len(pargs) = 1
\* The text the function was called with.
Arg == pargs[1]

\* C16: every non-empty field that contains an '@' and a '.' is classified as
\* email, whatever its digits, commas or length: the email rule comes before
\* the backup-code, trigger and password rules.
C16_EmailFirst ==
    (Called("detect_field_type") /\ Arg # <<>> /\ In("@", Arg) /\ In(".", Arg))
        => detected[1].type = "email"

\* A field with an '@', a '.' and a comma has been classified as email.
C16_Witness ==
    /\ Called("detect_field_type")
    /\ In("@", Arg) /\ In(".", Arg) /\ In(",", Arg)
    /\ detected[1].type = "email"

\* The digit-normalized text: every Arabic-Indic digit as its ASCII digit.
NormalChar(c) ==
    IF \E k \in 1..10 : ArabicDigits[k] = c
    THEN EnglishDigits[CHOOSE k \in 1..10 : ArabicDigits[k] = c]
    ELSE c
Normal(text) == [i \in 1..Len(text) |-> NormalChar(text[i])]
AsciiDigits == Range(EnglishDigits)
UnicodeDigits == AsciiDigits \cup Range(ArabicDigits) \cup PersianDigits

\* The runs of 8 or more consecutive digits of a text, as <<first, last>>.
RunsOf(text, digits) ==
    { r \in (1..Len(text)) \X (1..Len(text)) :
        /\ r[2] - r[1] >= 7
        /\ \A i \in r[1]..r[2] : text[i] \in digits
        /\ r[1] = 1 \/ text[r[1] - 1] \notin digits
        /\ r[2] = Len(text) \/ text[r[2] + 1] \notin digits }
\* The last 8 digits of a run.
CodeOf(text, r) == SubSeq(text, r[2] - 7, r[2])
\* Where a code first occurs in the text.
FirstAt(text, digits, code) ==
    LET at == {r[2] : r \in {q \in RunsOf(text, digits) : CodeOf(text, q) = code}}
    IN  CHOOSE j \in at : \A k \in at : j <= k

\* The items of a comma-joined list.
RECURSIVE SplitCodes(_, _)
SplitCodes(text, item) ==
    IF text = <<>> THEN (IF item = <<>> THEN <<>> ELSE <<item>>)
    ELSE IF Head(text) = "," THEN <<item>> \o SplitCodes(Tail(text), <<>>)
         ELSE SplitCodes(Tail(text), Append(item, Head(text)))

\* The result is the comma-joined list of the last 8 digits of each run of 8
\* or more digits of the normalized input, in order of first occurrence and
\* without duplicates.
CleanedIs(digits) ==
    LET text == Normal(Arg)
        out == SplitCodes(cleaned[1], <<>>) IN
    /\ Range(out) = {CodeOf(text, r) : r \in RunsOf(text, digits)}
    /\ \A a, b \in 1..Len(out) : a # b => out[a] # out[b]
    /\ \A a, b \in 1..Len(out) :
           a < b => FirstAt(text, digits, out[a]) < FirstAt(text, digits, out[b])

\* C17: clean_backup_codes returns the comma-joined list of the last 8 digits
\* of each run of 8 or more consecutive digits of the digit-normalized input,
\* in order of first occurrence and without duplicates; every code is exactly
\* 8 ASCII digits, and cleaning a cleaned value returns it unchanged.
C17_CleanedCodes ==
    Called("clean_backup_codes") =>
        /\ CleanedIs(AsciiDigits)
        /\ \A c \in Range(SplitCodes(cleaned[1], <<>>)) :
               Len(c) = 8 /\ Range(c) \subseteq AsciiDigits
        /\ clean_backup_codes(cleaned[1]) = cleaned[1]

\* The same with the digits re's \d matches, which need not be ASCII.
C17_CleanedUnicodeCodes ==
    Called("clean_backup_codes") =>
        /\ CleanedIs(UnicodeDigits)
        /\ \A c \in Range(SplitCodes(cleaned[1], <<>>)) :
               Len(c) = 8 /\ Range(c) \subseteq UnicodeDigits
        /\ clean_backup_codes(cleaned[1]) = cleaned[1]

ParseCalled == pcall = "parse_inputs" /\ Len(pargs) = 3
\* The call's fields with the i-th one left empty.
Without(i) == [pargs EXCEPT ![i] = <<>>]
\* The i-th field contributes no value: email, password and backup are what
\* they are without it.
NoValueFrom(i) ==
    LET data == parsed_data[1]
        other == parse_inputs(Without(i)[1], Without(i)[2], Without(i)[3]) IN
    /\ data.email = other.email
    /\ data.password = other.password
    /\ data.backup = other.backup
Blank(text) == \A j \in 1..Len(text) : text[j] \in Whitespace

\* C18: every field of length 1 to 4 passed to parse_inputs sets has_trigger
\* and contributes no value to email, password or backup.
C18_ShortFieldIsTrigger ==
    ParseCalled =>
        \A i \in 1..3 :
            (Len(pargs[i]) >= 1 /\ Len(pargs[i]) <= 4)
                => parsed_data[1].has_trigger /\ NoValueFrom(i)

\* C18 as amended: every field of length 1 to 4 that is not blank, has not
\* both an '@' and a '.', and has no comma sets has_trigger and contributes
\* no value to email, password or backup.
C18_ShortPlainFieldIsTrigger ==
    ParseCalled =>
        \A i \in 1..3 :
            ( /\ Len(pargs[i]) >= 1 /\ Len(pargs[i]) <= 4
              /\ ~Blank(pargs[i])
              /\ ~(In("@", pargs[i]) /\ In(".", pargs[i]))
              /\ ~In(",", pargs[i]) )
                => parsed_data[1].has_trigger /\ NoValueFrom(i)

\* A field of 4 letters came with an email: the trigger is set, the email is
\* the only value.
C18_Witness ==
    /\ ParseCalled
    /\ pargs[1] = <<"a","b","c","d">>
    /\ pargs[2] = <<"e","@","x",".","i","o">>
    /\ parsed_data[1].has_trigger
    /\ parsed_data[1].email = <<pargs[2]>>
    /\ parsed_data[1].password = <<>>

\* The ASCII digit of each Arabic-Indic digit, in order.
AsciiOf ==
    [c \in Range(ArabicDigits) |->
        CASE c = "ar0" -> "0" [] c = "ar1" -> "1" [] c = "ar2" -> "2"
          [] c = "ar3" -> "3" [] c = "ar4" -> "4" [] c = "ar5" -> "5"
          [] c = "ar6" -> "6" [] c = "ar7" -> "7" [] c = "ar8" -> "8"
          [] c = "ar9" -> "9"]

\* C19: convert_arabic_numbers maps the ten Arabic-Indic digits one-to-one
\* onto the ASCII digits 0-9 in order, leaves every other character
\* unchanged, preserves the length of the text, and is idempotent.
C19_DigitsConverted ==
    Called("convert_arabic_numbers") =>
        LET out == converted[1] IN
        /\ Len(out) = Len(Arg)
        /\ \A i \in 1..Len(Arg) :
               IF Arg[i] \in Range(ArabicDigits) THEN out[i] = AsciiOf[Arg[i]]
               ELSE out[i] = Arg[i]
        /\ \A i, j \in 1..Len(Arg) :
               (Arg[i] \in Range(ArabicDigits) /\ Arg[j] \in Range(ArabicDigits)
                    /\ out[i] = out[j]) => Arg[i] = Arg[j]
        /\ convert_arabic_numbers(out) = out

\* The ten Arabic-Indic digits, followed by a letter, have been converted.
C19_Witness ==
    /\ Called("convert_arabic_numbers")
    /\ Arg = ArabicDigits \o <<"x">>
    /\ converted[1] = <<"0","1","2","3","4","5","6","7","8","9","x">>

\* ========================================================================
\* error_notifier.py: the worker under fair scheduling
\* ========================================================================
\* The worker is started with short intervals.
LiveConfigs ==
    { Section(Some(TRUE), Some(7), Some(20), Missing, Missing, Some(20)) }
LiveProcs == {"p1"}

\* Time goes on after the clock has reached the last value it shows: the
\* worker's sleep still runs out.
LatePasses(limit) ==
    /\ config # NoConfig
    /\ now >= limit
    /\ wsleep > 0
    /\ wsleep' = IF wsleep > TickSeconds THEN wsleep - TickSeconds ELSE 0
    /\ ev' = NoNote
    /\ sendres' = <<>>
    /\ UNCHANGED <<config, telegram_bot, now, active_errors, wpc, wnow, wsnap,
                   wresolved, tpc, raised, lastNote, firstAt>>
    /\ UNCHANGED <<wrapvars, evars, pvars>>

LiveTick == TimePasses(LiveMaxTime) \/ LatePasses(LiveMaxTime)
\* A send_message call of the worker ends.
WorkerSent ==
    \/ \E o \in SendOutcomes : WorkerResendSent(o)
    \/ \E o \in SendOutcomes : WorkerCheckSent(o)

NextLive ==
    \/ \E c \in LiveConfigs : StartWorker(c)
    \/ \E p \in LiveProcs, t \in TrackTypes, d \in TrackDetails : TrackError(p, t, d)
    \/ \E p \in LiveProcs, o \in SendOutcomes : TrackSent(p, o)
    \/ WorkerWake
    \/ WorkerSent
    \/ LiveTick

\* The event loop resumes the worker when its sleep has run out and when its
\* send_message call has ended, every send_message call ends, and time
\* passes. Nothing obliges an operation to fail again.
SpecLive ==
    /\ Init
    /\ [][NextLive]_vars
    /\ WF_vars(WorkerWake)
    /\ WF_vars(WorkerSent)
    /\ WF_vars(LiveTick)

WorkerRuns == wpc # "off"
\* The key k is active and the clock can still show the end of the silence
\* window that its last occurrence opened.
SilenceEndsInTime(k) ==
    /\ Active(k)
    /\ Entry(active_errors, k).last_occurrence + get_auto_resolve_timeout
           <= LiveMaxTime

Submitting(e) == epc[e] \in {"submit", "submit_token"}

\* C21: the read-then-write update is not atomic: an edit keeps the record it
\* merged from its fetch until its submission is answered, whatever is stored
\* in between, and a successful submission replaces the whole remote record
\* by that merged record; a field another edit changed in between is lost.
C21_SubmitWritesStaleMerge ==
    [][\A e \in Editors :
        /\ (Submitting(e) /\ epc'[e] \in {"submit", "submit_token"})
               => efinal'[e] = efinal[e]
        /\ Stored(e) => remote' = efinal[e][1]
      ]_vars

\* A lost update: an edit whose input gave no password has been stored and
\* has put the old password back over the one another edit had stored since
\* its fetch.
C21_LostUpdate ==
    /\ laststore # <<>>
    /\ ~Provides(laststore[1].by.password)
    /\ laststore[1].was.password = "pw1"
    /\ remote.password = RemoteInit.password

\* ========================================================================
\* The classification of failures by the decorator
\* ========================================================================
\* The decorated function returned a (false, message) result.
FailingPair(o) ==
    /\ o.does = "return"
    /\ o.value[1].py = "tuple"
    /\ o.value[1].len >= 2
    /\ ~o.value[1].truthy
MessageOf(o) == o.value[1].second[1].text
\* The error type the message of a failing result falls under.
ClassOf(message) ==
    CASE Contains(StrRateLimit, Lower(message)) -> "Rate Limit"
      [] ~Contains(StrRateLimit, Lower(message))
            /\ Contains(StrQuota, Lower(message)) -> "Quota Exceeded"
      [] ~Contains(StrRateLimit, Lower(message))
            /\ ~Contains(StrQuota, Lower(message))
            /\ Contains(StrAuth, Lower(message)) -> "Authentication Error"
      [] OTHER -> "Operation Failed"
\* This step tracks one occurrence under error_type: its key is active
\* afterwards with this occurrence's time and details, a key that was not
\* active gets its first notification, and every other entry stays as it is.
TrackedAs(error_type, details) ==
    LET k == generate_error_key(TrackWorker, TrackOperation, error_type) IN
    /\ HasKey(active_errors', k)
    /\ Entry(active_errors', k).last_occurrence = now
    /\ Entry(active_errors', k).details = details
    /\ ~HasKey(active_errors, k) => ev' = Note(k, "error", 1, NoDuration)
    /\ \A j \in AllKeys \ {k} :
          /\ HasKey(active_errors', j) <=> HasKey(active_errors, j)
          /\ HasKey(active_errors, j)
                => Entry(active_errors', j) = Entry(active_errors, j)
NotTracked == active_errors' = active_errors /\ ev' = NoNote

\* C22: a monitored operation that returns a (false, message) result is
\* tracked under Rate Limit, Quota Exceeded, Authentication Error (the first
\* of 'rate limit', 'quota', 'auth' the lower-cased message contains) or
\* Operation Failed; one that raises is tracked under the exception's kind;
\* one that returns a success result or a non-tuple is not tracked at all.
C22_Classified ==
    [][\A p \in WrapProcs, o \in ClassifyOutcomes :
          (CallAsync(p, o) /\ is_enabled)
            => IF o.does = "raise"
               THEN TrackedAs(o.exc[1].type, o.exc[1].text)
               ELSE IF FailingPair(o)
               THEN TrackedAs(ClassOf(MessageOf(o)), MessageOf(o))
               ELSE NotTracked]_vars

\* C22 for the results whose message is a str: the same classification.
C22_StrMessagesClassified ==
    [][\A p \in WrapProcs, o \in ClassifyOutcomes :
          (CallAsync(p, o) /\ is_enabled
           /\ (FailingPair(o) => o.value[1].second[1].isstr))
            => IF o.does = "raise"
               THEN TrackedAs(o.exc[1].type, o.exc[1].text)
               ELSE IF FailingPair(o)
               THEN TrackedAs(ClassOf(MessageOf(o)), MessageOf(o))
               ELSE NotTracked]_vars

\* ========================================================================
\* Occurrences reported while a sweep is suspended
\* ========================================================================
\* check_resolved_errors ends in this step: its last send_message has ended
\* and the deletion loop runs.
CheckSweepEnds == wpc = "check_send" /\ wpc' = "sleep"
\* The sweep has sent k's resolved notification.
InResolved(k) == \E i \in 1..Len(wresolved) : wresolved[i] = k
\* track_error has run for k since the sweep found k silent: k's last
\* occurrence is no longer auto_resolve_timeout before the sweep's `now`.
OccurredSinceDecision(k) ==
    /\ HasKey(active_errors, k)
    /\ wnow - Entry(active_errors, k).last_occurrence < get_auto_resolve_timeout

\* C23: no failure occurrence is discarded by a sweep in progress: when
\* track_error has run for a key while check_resolved_errors was suspended
\* sending that key's resolved notification, the key is still active after
\* the sweep, or a new first notification for it has been sent since.
C23_OccurrenceNotDiscarded ==
    [][\A k \in Keys :
          (CheckSweepEnds /\ InResolved(k) /\ OccurredSinceDecision(k))
            => \/ HasKey(active_errors', k)
               \/ /\ lastNote'[k].kind = "error"
                  /\ lastNote'[k].attempt = 1
                  /\ lastNote'[k].at >= wnow
      ]_vars

\* ========================================================================
\* Resends and resolution in one sweep
\* ========================================================================
\* The worker hands a 'problem persists' notification for k to send_message
\* in this step.
SweepResends(k) ==
    /\ wpc' = "resend_send"
    /\ ev' # NoNote
    /\ ev'[1].key = k
    /\ ev'[1].kind = "error"
    /\ ev'[1].attempt > 1

\* C25: within a sweep, a key whose last occurrence is already at least
\* auto_resolve_timeout old gets no 'problem persists' notification: a key
\* the sweep resends for has occurred less than the timeout before the
\* sweep's `now`.
C25_NoResendWhenResolvable ==
    [][\A k \in Keys :
          SweepResends(k)
            => wnow' - Entry(active_errors', k).last_occurrence
                   < get_auto_resolve_timeout
      ]_vars

\* ========================================================================
\* The entries of _active_errors
\* ========================================================================
\* The entry of an active key is well formed.
EntryWellFormed(k) ==
    LET info == Entry(active_errors, k) IN
    /\ info.count >= 1
    /\ info.first_seen <= info.last_sent
    /\ info.first_seen <= info.last_occurrence
    /\ k = generate_error_key(info.worker, info.operation, info.error_type)
\* The count of k's entry from one state to the next: 1 at creation, one more
\* with every resend for k (the attempt number of its notification), and the
\* same otherwise; worker, operation and error_type stay.
EntryStep(k) ==
    /\ (~HasKey(active_errors, k) /\ HasKey(active_errors', k))
          => /\ Entry(active_errors', k).count = 1
             /\ ~SweepResends(k)
    /\ (HasKey(active_errors, k) /\ HasKey(active_errors', k))
          => LET old == Entry(active_errors, k)
                 new == Entry(active_errors', k) IN
             /\ new.first_seen = old.first_seen
             /\ new.worker = old.worker
             /\ new.operation = old.operation
             /\ new.error_type = old.error_type
             /\ IF SweepResends(k)
                THEN new.count = old.count + 1 /\ ev'[1].attempt = new.count
                ELSE new.count = old.count

\* C26: in every reachable state each active entry has count >= 1,
\* first_seen <= last_sent and first_seen <= last_occurrence, and its worker,
\* operation and error_type match its key and never change; its count is 1
\* plus the number of resends performed for the key since the entry was
\* created.
C26_EntriesWellFormed ==
    /\ [](\A k \in AllKeys : HasKey(active_errors, k) => EntryWellFormed(k))
    /\ [][\A k \in AllKeys : EntryStep(k)]_vars

\* An entry that has been resent twice and has occurred again since it was
\* created.
C26_Witness ==
    \E k \in Keys :
        /\ HasKey(active_errors, k)
        /\ Entry(active_errors, k).count = 3
        /\ lastNote[k].kind = "error" /\ lastNote[k].attempt = 3
        /\ Entry(active_errors, k).last_sent > Entry(active_errors, k).last_occurrence
        /\ Entry(active_errors, k).last_occurrence > Entry(active_errors, k).first_seen

CallbackAccounts == {"580127", ""}
\* What parse_inputs makes of the fields of smart_edit_account(account_id).
NoFields == Parsed(<<>>, <<>>, <<>>, FALSE)
\* The variables of smart_edit_account and of the site.
editvars == <<token, remote, epc, eparsed, efinal, eret, eposts, elast,
              efields, laststore>>
\* A task is free to handle an update.
Free(h) == hpc[h] \in {"idle", "done", "ignored"}

\* The user presses an 'edit sender' or an 'execute edit' button: the handler
\* runs to `await query.answer()`.
ButtonPressed(h, handler) ==
    /\ Free(h)
    /\ hpc' = [hpc EXCEPT ![h] = handler \o "_answer"]
    /\ hinput' = [hinput EXCEPT ![h] = <<>>]
    /\ UNCHANGED <<user_editing_state, hraised, editvars>>
    /\ UNCHANGED <<nvars, wrapvars, pvars>>

\* handle_edit_sender_button after query.answer(): without an account id it
\* replies with the error, otherwise it stores the account for the user; in
\* both cases it is suspended in reply_text next.
SenderAnswered(h, account_id) ==
    /\ hpc[h] = "sender_answer"
    /\ user_editing_state' = IF account_id = "" THEN user_editing_state
                             ELSE <<account_id>>
    /\ hpc' = [hpc EXCEPT ![h] = "reply"]
    /\ UNCHANGED <<hinput, hraised, editvars>>
    /\ UNCHANGED <<nvars, wrapvars, pvars>>

\* handle_execute_edit_button after query.answer(): the error reply, or the
\* 'executing' reply that precedes smart_edit_account(account_id).
ExecuteAnswered(h, account_id) ==
    /\ hpc[h] = "execute_answer"
    /\ hpc' = [hpc EXCEPT ![h] = IF account_id = "" THEN "reply"
                                 ELSE "execute_wait"]
    /\ hinput' = [hinput EXCEPT ![h] = IF account_id = "" THEN <<>>
                                       ELSE <<NoFields>>]
    /\ UNCHANGED <<user_editing_state, hraised, editvars>>
    /\ UNCHANGED <<nvars, wrapvars, pvars>>

\* The last reply_text of a handler ends and the handler returns.
Replied(h) ==
    /\ hpc[h] = "reply"
    /\ hpc' = [hpc EXCEPT ![h] = "done"]
    /\ UNCHANGED <<user_editing_state, hinput, hraised, editvars>>
    /\ UNCHANGED <<nvars, wrapvars, pvars>>

\* process_edit_input for a text message of the user, whose fields parse to
\* parsed: it returns at once without an entry for the user, otherwise it
\* reads the account and is suspended in the 'analysing' reply.
TextSent(h, parsed) ==
    /\ Free(h)
    /\ IF user_editing_state = <<>>
       THEN /\ hpc' = [hpc EXCEPT ![h] = "ignored"]
            /\ hinput' = [hinput EXCEPT ![h] = <<>>]
       ELSE /\ hpc' = [hpc EXCEPT ![h] = "process_wait"]
            /\ hinput' = [hinput EXCEPT ![h] = <<parsed>>]
    /\ UNCHANGED <<user_editing_state, hraised, editvars>>
    /\ UNCHANGED <<nvars, wrapvars, pvars>>

\* The reply before the edit ends: the handler calls smart_edit_account.
EditCalled(h) ==
    /\ hpc[h] \in {"execute_wait", "process_wait"}
    /\ StartEdit(h, hinput[h][1])
    /\ hpc' = [hpc EXCEPT ![h] = IF hpc[h] = "execute_wait" THEN "execute_edit"
                                 ELSE "process_edit"]
    /\ UNCHANGED <<user_editing_state, hinput, hraised>>

\* What the site answers where the handlers are examined: a token, and to
\* each POST a 200 (with the full data list) or a 500.
HandlerStatuses == {200, 500}
HandlerRefreshOutcomes == { <<"tokA">> }
HandlerFetchResponses ==
    { r \in FetchResponsesOf({7}) : ~r.exc /\ r.status \in HandlerStatuses }
HandlerSubmitResponses ==
    { r \in SubmitResponses : ~r.exc /\ r.status \in HandlerStatuses }
\* The text messages the user sends, by what parse_inputs makes of them.
HandlerTexts == { Parsed(<<>>, <<"pw1">>, <<>>, FALSE) }

\* smart_edit_account goes on inside a handler.
EditGoesOn(h) ==
    /\ hpc[h] \in {"execute_edit", "process_edit"}
    /\ \/ \E o \in HandlerRefreshOutcomes : TokenFetched(h, o)
       \/ \E r \in HandlerFetchResponses : FetchResponds(h, r)
       \/ \E r \in HandlerSubmitResponses : SubmitResponds(h, r)
    /\ UNCHANGED hvars

\* handle_execute_edit_button after smart_edit_account has returned and the
\* reply with the result has ended: it deletes the user's entry if there is
\* one.
ExecuteCleanup(h) ==
    /\ hpc[h] = "execute_edit"
    /\ epc[h] = "done"
    /\ hpc' = [hpc EXCEPT ![h] = "done"]
    /\ user_editing_state' = <<>>
    /\ UNCHANGED <<hinput, hraised, editvars>>
    /\ UNCHANGED <<nvars, wrapvars, pvars>>

\* process_edit_input after smart_edit_account has returned and the reply
\* with the result has ended: del user_editing_state[user_id], a KeyError
\* when the entry is gone.
ProcessCleanup(h) ==
    /\ hpc[h] = "process_edit"
    /\ epc[h] = "done"
    /\ hpc' = [hpc EXCEPT ![h] = "done"]
    /\ user_editing_state' = <<>>
    /\ hraised' = IF user_editing_state = <<>> THEN hraised \cup {h} ELSE hraised
    /\ UNCHANGED <<hinput, editvars>>
    /\ UNCHANGED <<nvars, wrapvars, pvars>>

NextHandlers ==
    \/ \E h \in Handlers, b \in {"sender", "execute"} : ButtonPressed(h, b)
    \/ \E h \in Handlers, a \in CallbackAccounts : SenderAnswered(h, a)
    \/ \E h \in Handlers, a \in CallbackAccounts : ExecuteAnswered(h, a)
    \/ \E h \in Handlers : Replied(h)
    \/ \E h \in Handlers, parsed \in HandlerTexts : TextSent(h, parsed)
    \/ \E h \in Handlers : EditCalled(h)
    \/ \E h \in Handlers : EditGoesOn(h)
    \/ \E h \in Handlers : ExecuteCleanup(h)
    \/ \E h \in Handlers : ProcessCleanup(h)

SpecHandlers == Init /\ [][NextHandlers]_vars

\* ========================================================================
\* Properties of the bot handlers
\* ========================================================================
\* A text message that finds no entry for the user is ignored: no request is
\* made and neither the entry nor any edit changes.
TextIgnored ==
    \A h \in Handlers, parsed \in HandlerTexts :
        (TextSent(h, parsed) /\ user_editing_state = <<>>)
            => /\ hpc'[h] = "ignored"
               /\ UNCHANGED <<user_editing_state, editvars>>

\* C24: under every interleaving of handle_edit_sender_button,
\* handle_execute_edit_button and process_edit_input for the same user, the
\* cleanup of user_editing_state never fails (no handler ends in a KeyError
\* when it resumes after its edit), and a text message from a user without
\* an entry causes no remote request and no state change.
C24_CleanupNeverFails ==
    /\ [](hraised = {})
    /\ [][TextIgnored]_vars

\* C24, what holds of it: a text message without an entry is ignored, and
\* the only cleanup that fails is the del of process_edit_input, when the
\* entry was deleted while it was suspended.
C24_OnlyProcessCleanupFails ==
    [][/\ TextIgnored
       /\ hraised' # hraised
            => \E h \in Handlers :
                  /\ hpc[h] = "process_edit"
                  /\ hpc'[h] = "done"
                  /\ user_editing_state = <<>>
                  /\ hraised' = hraised \cup {h}]_vars
====
